---------------------------- MODULE Spec2Model ----------------------------
(***************************************************************************)
(* ImageFilter: the quality metrics (PSNR, SSIM) and the unsharp mask of   *)
(* src/psnr.cpp, src/ssim.cpp and src/filters.cpp, as state machines over  *)
(* small pixel buffers.                                                    *)
(*                                                                         *)
(* A buffer (cv::Mat) is a record [rows, cols, channels, depth, data];     *)
(* data is the continuous sample array, sample (y, x, c) at 0-based index  *)
(* (y*cols + x)*channels + c, kept 1-based in the sequence.                *)
(* Real numbers are exact fractions: amount and threshold are counted in   *)
(* units of 1/Res, a PSNR is kept as the pair (MAX, MSE) under its         *)
(* logarithm, an SSIM map entry as its four factors.                       *)
(* result holds what the call on (imageA, imageB) returned, reverse what   *)
(* the same call on (imageB, imageA) returned.  params holds the further   *)
(* arguments of the call where it has any (scores, kernel size, sigmas).   *)
(***************************************************************************)
EXTENDS Integers, Naturals, Sequences, FiniteSets, TLC

VARIABLES imageA, imageB, amount, threshold, params, pc, result, reverse

vars == <<imageA, imageB, amount, threshold, params, pc, result, reverse>>

-----------------------------------------------------------------------------
(* Bounds of the explored inputs *)

\* rows and columns of the generated buffers range over 1..MaxDim
MaxDim == 2
\* amount and threshold are multiples of 1/Res
Res == 2
\* amount ranges over 0 .. MaxAmount/Res
MaxAmount == 3
\* threshold ranges over 0 .. MaxThreshold/Res
MaxThreshold == 2
\* side of the square single-channel buffers of the PSNR scenario
ScenarioDim == 4
\* largest sample value of the generated SSIM inputs
MaxSample == 12

-----------------------------------------------------------------------------
(* Arithmetic helpers *)

\* the calls on two buffers alone take no further argument
NoParams == [none |-> TRUE]

Abs(n) == IF n < 0 THEN -n ELSE n

Min(a, b) == IF a < b THEN a ELSE b

Max(a, b) == IF a > b THEN a ELSE b

RECURSIVE GCD(_, _)
GCD(a, b) == IF b = 0 THEN a ELSE GCD(b, a % b)

-----------------------------------------------------------------------------
(* Buffers *)

Depths == {"8U", "16U", "32F"}

\* cv::Mat(): no rows, no columns, type CV_8UC1
EmptyMat == [rows |-> 0, cols |-> 0, channels |-> 1, depth |-> "8U", data |-> <<>>]

\* cv::Mat::empty()
Empty(m) == m.rows = 0 \/ m.cols = 0

\* cv::Mat::total() * channels()
NumSamples(m) == m.rows * m.cols * m.channels

\* sample patterns of the generated buffers, by 0-based sample index i
PatternValue(pat, i, ch, v0, v1) ==
    CASE pat = "step" -> IF i \div ch = 0 THEN v0 ELSE v1
      [] pat = "alt"  -> IF i % 2 = 0 THEN v0 ELSE v1
      [] pat = "chan" -> IF i % ch = 0 THEN v0 ELSE v1

MkBuf(r, c, ch, d, pat, v0, v1) ==
    [rows |-> r, cols |-> c, channels |-> ch, depth |-> d,
     data |-> [i \in 1..(r * c * ch) |-> PatternValue(pat, i - 1, ch, v0, v1)]]

Dims == 1..MaxDim

ChannelCounts == {1, 3}

OtherChannels(ch) == IF ch = 1 THEN 3 ELSE 1

\* buffers that fail validation against m: empty, one more row, other channel count
Mismatches(m) ==
    {EmptyMat,
     MkBuf(m.rows + 1, m.cols, m.channels, m.depth, "step", 0, 0),
     MkBuf(m.rows, m.cols, OtherChannels(m.channels), m.depth, "step", 0, 0)}

-----------------------------------------------------------------------------
(* applyUnsharpMask, src/filters.cpp *)

\* 8-bit sample values of the generated unsharp inputs
UnsharpPalette == {0, 1, 255}

UnsharpPatterns == {"step", "alt"}

\* values a read past the end of a buffer may return
JunkBytes == {0, 255}

UnsharpBuffers ==
    {MkBuf(r, c, ch, "8U", pat, v0, v1) :
        r \in Dims, c \in Dims, ch \in ChannelCounts,
        pat \in UnsharpPatterns, v0 \in UnsharpPalette, v1 \in UnsharpPalette}

UnsharpSameShape(m) ==
    {MkBuf(m.rows, m.cols, m.channels, "8U", pat, v0, v1) :
        pat \in UnsharpPatterns, v0 \in UnsharpPalette, v1 \in UnsharpPalette}

\* the three validation checks, in the code's order
UnsharpAcceptsNoChannelCheck(original, blurred) ==
    /\ ~(Empty(original) \/ Empty(blurred))
    /\ original.rows = blurred.rows /\ original.cols = blurred.cols

UnsharpAccepts(original, blurred) ==
    /\ ~(Empty(original) \/ Empty(blurred))
    /\ original.rows = blurred.rows /\ original.cols = blurred.cols
    /\ original.channels = blurred.channels

\* 0-based sample index that m.at<cv::Vec3b>(y, x)[c] addresses in an 8-bit
\* buffer: row y starts at y*step, step = cols*channels bytes, and a Vec3b
\* element is 3 bytes wide whatever the channel count of m
Vec3bIndex(m, y, x, c) == y * (m.cols * m.channels) + x * 3 + c

\* a read through at<cv::Vec3b>: past the end of the data the value is arbitrary
ReadAt(m, idx, junk) == IF idx < Len(m.data) THEN m.data[idx + 1] ELSE junk

\* one sample: detail, noise gate, amount, clamp, truncating 8-bit store
\* (amt and thr in units of 1/Res)
SharpenSample(orig_val, blur_val, amt, thr) ==
    LET detail == orig_val - blur_val
        gated == IF Abs(detail) * Res < thr THEN 0 ELSE detail
        sharpened == orig_val * Res + amt * gated
        clamped == Min(255 * Res, Max(0, sharpened))
    IN clamped \div Res

\* the y, x, c loops, sample i of rows*cols*channels; acc = [data, oobRead, oobWrite]
RECURSIVE UnsharpLoop(_, _, _, _, _, _, _)
UnsharpLoop(original, blurred, amt, thr, junk, i, acc) ==
    IF i >= NumSamples(original) THEN acc
    ELSE LET ch == original.channels
             y == i \div (original.cols * ch)
             x == (i \div ch) % original.cols
             c == i % ch
             ro == Vec3bIndex(original, y, x, c)
             rb == Vec3bIndex(blurred, y, x, c)
             val == SharpenSample(ReadAt(original, ro, junk),
                                  ReadAt(blurred, rb, junk), amt, thr)
             inside == ro < Len(acc.data)
         IN UnsharpLoop(original, blurred, amt, thr, junk, i + 1,
                [data |-> IF inside THEN [acc.data EXCEPT ![ro + 1] = val]
                          ELSE acc.data,
                 oobRead |-> acc.oobRead \/ ro >= Len(original.data)
                                         \/ rb >= Len(blurred.data),
                 oobWrite |-> acc.oobWrite \/ ~inside])

\* result: the returned buffer, the number of samples computed, and whether
\* a sample outside a buffer was read or written
applyUnsharpMask(original, blurred, amt, thr, junk) ==
    IF ~UnsharpAccepts(original, blurred)
    THEN [mat |-> EmptyMat, computed |-> 0, oobRead |-> FALSE, oobWrite |-> FALSE]
    ELSE LET zeros == [i \in 1..NumSamples(original) |-> 0]
             done == UnsharpLoop(original, blurred, amt, thr, junk, 0,
                        [data |-> zeros, oobRead |-> FALSE, oobWrite |-> FALSE])
         IN [mat |-> [rows |-> original.rows, cols |-> original.cols,
                      channels |-> original.channels, depth |-> original.depth,
                      data |-> done.data],
             computed |-> NumSamples(original),
             oobRead |-> done.oobRead, oobWrite |-> done.oobWrite]

NoResult == [mat |-> EmptyMat, computed |-> 0, oobRead |-> FALSE, oobWrite |-> FALSE]

InitUnsharp ==
    /\ imageA \in UnsharpBuffers \cup {EmptyMat}
    /\ imageB \in UnsharpSameShape(imageA) \cup Mismatches(imageA)
    /\ amount \in 0..MaxAmount
    /\ threshold \in 0..MaxThreshold
    /\ pc = "unsharp"
    /\ result = NoResult
    /\ reverse = NoResult
    /\ params = NoParams

CallUnsharpMask ==
    /\ pc = "unsharp"
    /\ \E junk \in JunkBytes :
           result' = applyUnsharpMask(imageA, imageB, amount, threshold, junk)
    /\ pc' = "done"
    /\ UNCHANGED <<imageA, imageB, amount, threshold, params, reverse>>

NextUnsharp == CallUnsharpMask

SpecUnsharp == InitUnsharp /\ [][NextUnsharp]_vars


-----------------------------------------------------------------------------
(* Properties of applyUnsharpMask *)

UnsharpDone == pc = "done" /\ UnsharpAccepts(imageA, imageB)

\* the sample the contract asks for: detail, gate below the threshold, amount,
\* clamp into [0, 255], fraction discarded (amount and threshold in 1/Res)
ContractSample(o, b) ==
    LET d == o - b
        g == IF Abs(d) * Res < threshold THEN 0 ELSE d
        v == o * Res + amount * g
    IN IF v < 0 THEN 0 ELSE IF v > 255 * Res THEN 255 ELSE v \div Res

SamplesFollowContract ==
    /\ Len(result.mat.data) = NumSamples(imageA)
    /\ \A i \in 1..NumSamples(imageA) :
           result.mat.data[i] = ContractSample(imageA.data[i], imageB.data[i])

\* C1: after applyUnsharpMask on two non-empty 8-bit buffers of equal size and
\* channel count, every sample of the output is
\* clamp(original + amount*gate(original - blurred), 0, 255), truncated.
UnsharpPerSample == UnsharpDone => SamplesFollowContract

\* the same statement on 3-channel buffers only, where at<cv::Vec3b> addresses
\* the sample the loop means
UnsharpPerSampleThreeChannels ==
    (UnsharpDone /\ imageA.channels = 3) => SamplesFollowContract

\* C2: applyUnsharpMask(A, A, amount, 0) on a non-empty buffer A of 1 or 3
\* channels returns A sample for sample and touches no sample outside the buffers.
UnsharpNoOp ==
    (pc = "done" /\ ~Empty(imageA) /\ imageB = imageA /\ threshold = 0)
        => /\ result.mat = imageA
           /\ ~result.oobRead
           /\ ~result.oobWrite

\* what the contract calls a caller violation
ContractRejects(a, b) ==
    \/ Empty(a)
    \/ Empty(b)
    \/ a.rows # b.rows
    \/ a.cols # b.cols
    \/ a.channels # b.channels

\* C3: applyUnsharpMask returns an empty buffer and computes no sample when an
\* input is empty or the inputs differ in width, height or channel count;
\* otherwise the output has the size and type of the original.
UnsharpValidation ==
    pc = "done" =>
        IF ContractRejects(imageA, imageB)
        THEN result.mat = EmptyMat /\ result.computed = 0
        ELSE /\ result.mat.rows = imageA.rows
             /\ result.mat.cols = imageA.cols
             /\ result.mat.channels = imageA.channels
             /\ result.mat.depth = imageA.depth
             /\ Len(result.mat.data) = NumSamples(imageA)

\* a call rejected for the channel count alone
UnsharpChannelMismatchRejected ==
    /\ pc = "done"
    /\ ~Empty(imageA) /\ ~Empty(imageB)
    /\ imageA.rows = imageB.rows /\ imageA.cols = imageB.cols
    /\ imageA.channels # imageB.channels
    /\ result.mat = EmptyMat

SampleSet(m) == {m.data[i] : i \in 1..Len(m.data)}

\* original is a step between lo and hi, blurred lies between them
StepEdge(original, blurred, lo, hi) ==
    /\ lo < hi
    /\ SampleSet(original) = {lo, hi}
    /\ \A v \in SampleSet(blurred) : lo <= v /\ v <= hi

\* C4: on a step edge of magnitude d with the blurred samples between the two
\* values, any amount >= 0 and any threshold >= d leave the original unchanged.
\* (Stated on 3-channel buffers, so that a violation is the gate's, not the
\* sample addressing's.)
ThresholdGating ==
    (UnsharpDone /\ imageA.channels = 3) =>
        \A lo \in UnsharpPalette, hi \in UnsharpPalette :
            (StepEdge(imageA, imageB, lo, hi) /\ threshold >= (hi - lo) * Res)
                => result.mat.data = imageA.data

\* the gate as the code has it: a threshold strictly above d leaves the step alone
ThresholdGatingStrict ==
    (UnsharpDone /\ imageA.channels = 3) =>
        \A lo \in UnsharpPalette, hi \in UnsharpPalette :
            (StepEdge(imageA, imageB, lo, hi) /\ threshold > (hi - lo) * Res)
                => result.mat.data = imageA.data


-----------------------------------------------------------------------------
(* calculatePSNR, src/psnr.cpp *)

PsnrPalette == {0, 100, 110}

PsnrPatterns == {"step", "chan"}

PsnrBuffers ==
    {MkBuf(r, c, ch, d, pat, v0, v1) :
        r \in Dims, c \in Dims, ch \in ChannelCounts, d \in Depths,
        pat \in PsnrPatterns, v0 \in PsnrPalette, v1 \in PsnrPalette}
    \cup {MkBuf(ScenarioDim, ScenarioDim, 1, "8U", "step", v, v) : v \in PsnrPalette}

PsnrSameShape(m) ==
    {MkBuf(m.rows, m.cols, m.channels, d, pat, v0, v1) :
        d \in Depths, pat \in PsnrPatterns, v0 \in PsnrPalette, v1 \in PsnrPalette}

\* the three validation checks: empty, size, channels
PsnrAcceptsNoEmptyCheck(original, compressed) ==
    /\ original.rows = compressed.rows /\ original.cols = compressed.cols
    /\ original.channels = compressed.channels

PsnrAccepts(original, compressed) ==
    /\ ~(Empty(original) \/ Empty(compressed))
    /\ original.rows = compressed.rows /\ original.cols = compressed.cols
    /\ original.channels = compressed.channels

\* convertTo(CV_64F): every 8-bit, 16-bit or float sample is a double of the same value
ConvertTo64F(m) == [m EXCEPT !.depth = "64F"]

\* (orig_float - comp_float).mul(itself), sample by sample
SquaredDiff(a, b) ==
    [i \in 1..Len(a.data) |-> (a.data[i] - b.data[i]) * (a.data[i] - b.data[i])]

\* sum of the samples of channel c over the first n pixels
RECURSIVE ChannelSum(_, _, _, _)
ChannelSum(data, ch, c, n) ==
    IF n = 0 THEN 0
    ELSE data[(n - 1) * ch + c + 1] + ChannelSum(data, ch, c, n - 1)

\* cv::sum: a Scalar of four per-channel sums, 0 for a channel the buffer lacks
CvSum(data, ch) ==
    [c \in 0..3 |-> IF c < ch THEN ChannelSum(data, ch, c, Len(data) \div ch) ELSE 0]

\* the loop adding sum_squared_error[i] for i < channels
SumChannelsFirstOnly(scalar, n) == IF n = 0 THEN 0 ELSE scalar[0]

RECURSIVE SumChannels(_, _)
SumChannels(scalar, n) ==
    IF n = 0 THEN 0 ELSE scalar[n - 1] + SumChannels(scalar, n - 1)

TotalPixelsNoChannels(original) == original.rows * original.cols

\* original.total() * original.channels()
TotalPixels(original) == original.rows * original.cols * original.channels

MaxPixelValue(depth) ==
    IF depth = "8U" THEN 255 ELSE IF depth = "16U" THEN 65535 ELSE 1

\* a returned double: a plain number, +infinity, or 10*log10(max^2 / mse) with
\* mse = mseNum/mseDen in lowest terms; computed tells whether the metric ran
PsnrSentinel ==
    [kind |-> "number", value |-> -1, max |-> 0, mseNum |-> 0, mseDen |-> 1,
     computed |-> FALSE]

PsnrInfinity ==
    [kind |-> "inf", value |-> 0, max |-> 0, mseNum |-> 0, mseDen |-> 1,
     computed |-> TRUE]

calculatePSNR(original, compressed) ==
    IF ~PsnrAccepts(original, compressed) THEN PsnrSentinel
    ELSE LET orig_float == ConvertTo64F(original)
             comp_float == ConvertTo64F(compressed)
             diff == SquaredDiff(orig_float, comp_float)
             sum_squared_error == CvSum(diff, original.channels)
             sse == SumChannels(sum_squared_error, original.channels)
             total_pixels == TotalPixels(original)
             g == GCD(sse, total_pixels)
         IN IF sse = 0 THEN PsnrInfinity
            ELSE [kind |-> "db", value |-> 0,
                  max |-> MaxPixelValue(original.depth),
                  mseNum |-> sse \div g, mseDen |-> total_pixels \div g,
                  computed |-> TRUE]

InitPSNR ==
    /\ imageA \in PsnrBuffers \cup {EmptyMat}
    /\ imageB \in PsnrSameShape(imageA) \cup Mismatches(imageA)
    /\ amount = 0
    /\ threshold = 0
    /\ pc = "psnr"
    /\ result = PsnrSentinel
    /\ reverse = PsnrSentinel
    /\ params = NoParams

\* calculatePSNR(imageA, imageB)
CallPSNR ==
    /\ pc = "psnr"
    /\ result' = calculatePSNR(imageA, imageB)
    /\ pc' = "psnr_reverse"
    /\ UNCHANGED <<imageA, imageB, amount, threshold, params, reverse>>

\* calculatePSNR(imageB, imageA)
CallPSNRReverse ==
    /\ pc = "psnr_reverse"
    /\ reverse' = calculatePSNR(imageB, imageA)
    /\ pc' = "done"
    /\ UNCHANGED <<imageA, imageB, amount, threshold, params, result>>

NextPSNR == CallPSNR \/ CallPSNRReverse

SpecPSNR == InitPSNR /\ [][NextPSNR]_vars

-----------------------------------------------------------------------------
(* Properties of calculatePSNR *)

PsnrDone == pc = "done" /\ ~ContractRejects(imageA, imageB)

\* the sum of the squared differences over every sample of both buffers
RECURSIVE ContractSSE(_, _, _)
ContractSSE(a, b, n) ==
    IF n = 0 THEN 0
    ELSE (a[n] - b[n]) * (a[n] - b[n]) + ContractSSE(a, b, n - 1)

\* MAX of the sample domain of the first buffer
ContractMax(m) ==
    CASE m.depth = "8U" -> 255
      [] m.depth = "16U" -> 65535
      [] OTHER -> 1

Uniform(m, r, c, v) ==
    /\ m.rows = r /\ m.cols = c /\ m.channels = 1
    /\ \A i \in 1..Len(m.data) : m.data[i] = v

\* C5: on accepted buffers MSE is the sum of the squared sample differences
\* divided by width*height*channels, and for MSE > 0 the result is
\* 10*log10(MAX^2/MSE) with MAX = 255, 65535 or 1.0 by sample depth; a 4x4
\* buffer of 100s against a 4x4 buffer of 110s has MSE = 100.
PsnrFormula ==
    LET sse == ContractSSE(imageA.data, imageB.data, Len(imageA.data))
        n == imageA.rows * imageA.cols * imageA.channels
    IN (PsnrDone /\ sse > 0) =>
        /\ result.kind = "db"
        /\ result.max = ContractMax(imageA)
        /\ result.mseNum * n = sse * result.mseDen
        /\ (Uniform(imageA, ScenarioDim, ScenarioDim, 100)
               /\ Uniform(imageB, ScenarioDim, ScenarioDim, 110))
               => (result.mseNum = 100 /\ result.mseDen = 1)

\* the scenario of C5 has run: 4x4 of 100 against 4x4 of 110
PsnrScenarioRan ==
    /\ pc = "done"
    /\ Uniform(imageA, ScenarioDim, ScenarioDim, 100)
    /\ Uniform(imageB, ScenarioDim, ScenarioDim, 110)
    /\ imageA.depth = "8U"
    /\ result.kind = "db" /\ result.max = 255
    /\ result.mseNum = 100 /\ result.mseDen = 1

\* whether a returned double is below zero, as the callers' check psnr < 0 sees it
PsnrNegative(r) ==
    CASE r.kind = "number" -> r.value < 0
      [] r.kind = "inf" -> FALSE
      [] r.kind = "db" ->
            LET q == r.mseNum \div r.mseDen
                rem == r.mseNum % r.mseDen
            IN \/ q \div r.max > r.max
               \/ (q \div r.max = r.max /\ (q % r.max > 0 \/ rem > 0))

\* C6: calculatePSNR(A, A) is +infinity for a non-empty A; on accepted buffers
\* the result is +infinity exactly when they are equal sample for sample, and
\* +infinity is not an error value.
PsnrIdentity ==
    PsnrDone =>
        /\ (result.kind = "inf") <=> (imageA.data = imageB.data)
        /\ (imageA = imageB) => result = PsnrInfinity
        /\ result.kind = "inf" => (~PsnrNegative(result) /\ result # PsnrSentinel)

\* a non-empty buffer compared with itself
PsnrSelfCompared ==
    /\ pc = "done"
    /\ ~Empty(imageA)
    /\ imageA = imageB
    /\ NumSamples(imageA) > 1
    /\ result.kind = "inf"

\* C7: calculatePSNR returns -1 and computes nothing when an input is empty
\* or the inputs differ in width, height or channel count.
PsnrValidation ==
    (pc = "done" /\ ContractRejects(imageA, imageB)) =>
        /\ result.kind = "number" /\ result.value = -1
        /\ ~result.computed

\* a call rejected for the size alone
PsnrSizeMismatchRejected ==
    /\ pc = "done"
    /\ ~Empty(imageA) /\ ~Empty(imageB)
    /\ imageA.rows # imageB.rows
    /\ imageA.channels = imageB.channels
    /\ result = PsnrSentinel

\* equality of two returned doubles; two decibel values are equal when
\* max1^2/mse1 = max2^2/mse2, compared without forming the squares
PsnrEqual(r1, r2) ==
    /\ r1.kind = r2.kind
    /\ r1.kind = "number" => r1.value = r2.value
    /\ r1.kind = "db" =>
          LET hi == IF r1.max >= r2.max THEN r1 ELSE r2
              lo == IF r1.max >= r2.max THEN r2 ELSE r1
              k == hi.max \div lo.max
              \* hi.max^2 * lo.mse = lo.max^2 * hi.mse, hi.max = k * lo.max
              big == hi.mseNum * lo.mseDen
              small == lo.mseNum * hi.mseDen
          IN /\ hi.max % lo.max = 0
             /\ big % k = 0
             /\ (big \div k) % k = 0
             /\ (big \div k) \div k = small

\* C8: calculatePSNR(A, B) = calculatePSNR(B, A) for every pair it accepts,
\* whatever the sample depths of A and B.
PsnrSymmetry == PsnrDone => PsnrEqual(result, reverse)

\* the same statement for two buffers of one sample depth
PsnrSymmetrySameDepth ==
    (PsnrDone /\ imageA.depth = imageB.depth) => PsnrEqual(result, reverse)

-----------------------------------------------------------------------------
(* computeSSIM, src/ssim.cpp *)

\* C1 = (0.01*255)^2 = 6.5025 = C1Num/CScale, C2 = (0.03*255)^2 = 58.5225 = C2Num/CScale
CScale == 400
C1Num == 2601
C2Num == 23409

\* cv::Size(11, 11)
WindowSize == 11

\* the 11 taps exp(-i^2 / (2 * 1.5^2)) of the window, i = -5..5, normalised and
\* kept in fixed point with denominator 9: 0.001 0.008 0.036 0.109 0.213 0.266 ...
GaussTaps == <<0, 0, 0, 1, 2, 3, 2, 1, 0, 0, 0>>

Radius == WindowSize \div 2

Tap(i) == GaussTaps[i + Radius + 1]

RECURSIVE SeqSum(_, _)
SeqSum(seq, n) == IF n = 0 THEN 0 ELSE seq[n] + SeqSum(seq, n - 1)

\* sum of the 1-D taps; the 2-D window weights sum to TapSum^2
TapSum == SeqSum(GaussTaps, WindowSize)

WindowSum == TapSum * TapSum

\* cv::borderInterpolate(p, len, BORDER_REFLECT_101), the default border of GaussianBlur
RECURSIVE Reflect101(_, _)
Reflect101(p, len) ==
    IF 0 <= p /\ p < len THEN p
    ELSE IF len = 1 THEN 0
    ELSE IF p < 0 THEN Reflect101(0 - p, len)
    ELSE Reflect101(2 * len - 2 - p, len)

SsimPalette == {0, MaxSample}

SsimPatterns == {"step", "alt", "chan"}

SsimDepths == {"8U", "32F"}

OtherDepth(d) == IF d = "8U" THEN "32F" ELSE "8U"

SsimBuffers ==
    {MkBuf(r, c, ch, d, pat, v0, v1) :
        r \in Dims, c \in Dims, ch \in ChannelCounts, d \in SsimDepths,
        pat \in SsimPatterns, v0 \in SsimPalette, v1 \in SsimPalette}

SsimSameShape(m) ==
    {MkBuf(m.rows, m.cols, m.channels, m.depth, pat, v0, v1) :
        pat \in SsimPatterns, v0 \in SsimPalette, v1 \in SsimPalette}

\* a buffer of the same size and channel count but another sample depth
DepthMismatch(m) == [m EXCEPT !.depth = OtherDepth(m.depth)]

\* imageA.type() != imageB.type(): the type is the depth with the channel count
SameType(a, b) == a.depth = b.depth /\ a.channels = b.channels

SsimAcceptsNoTypeCheck(a, b) ==
    /\ ~(Empty(a) \/ Empty(b))
    /\ a.rows = b.rows /\ a.cols = b.cols

SsimAccepts(a, b) ==
    /\ ~(Empty(a) \/ Empty(b))
    /\ a.rows = b.rows /\ a.cols = b.cols
    /\ SameType(a, b)

\* convertTo(CV_32F): the samples keep their values
ConvertTo32F(m) == [m EXCEPT !.depth = "32F"]

\* sample (y, x, c) of a buffer
At(m, y, x, c) == m.data[(y * m.cols + x) * m.channels + c + 1]

\* one term of an element-wise product: which == "A" is A, "AA" is A.mul(A), ...
Product(a, b, which, y, x, c) ==
    CASE which = "A"  -> At(a, y, x, c)
      [] which = "B"  -> At(b, y, x, c)
      [] which = "AA" -> At(a, y, x, c) * At(a, y, x, c)
      [] which = "BB" -> At(b, y, x, c) * At(b, y, x, c)
      [] which = "AB" -> At(a, y, x, c) * At(b, y, x, c)

\* the horizontal pass at row yy for output column x: taps j..Radius
RECURSIVE RowBlur(_, _, _, _, _, _, _)
RowBlur(a, b, which, yy, x, c, j) ==
    IF j > Radius THEN 0
    ELSE (IF Tap(j) = 0 THEN 0
          ELSE Tap(j) * Product(a, b, which, yy, Reflect101(x + j, a.cols), c))
         + RowBlur(a, b, which, yy, x, c, j + 1)

\* the vertical pass over the horizontally filtered rows: taps i..Radius
RECURSIVE ColBlur(_, _, _, _, _, _, _)
ColBlur(a, b, which, y, x, c, i) ==
    IF i > Radius THEN 0
    ELSE (IF Tap(i) = 0 THEN 0
          ELSE Tap(i) * RowBlur(a, b, which, Reflect101(y + i, a.rows), x, c,
                                0 - Radius))
         + ColBlur(a, b, which, y, x, c, i + 1)

\* cv::GaussianBlur(src, dst, cv::Size(11, 11), 1.5) at (y, x, c), times WindowSum
GaussianBlur(a, b, which, y, x, c) == ColBlur(a, b, which, y, x, c, 0 - Radius)

\* 2.0 * meanA_times_meanB + C1, times CScale * WindowSum^2
LuminanceNumeratorNoDouble(mA, mB) ==
    CScale * mA * mB + C1Num * WindowSum * WindowSum

LuminanceNumerator(mA, mB) ==
    2 * CScale * mA * mB + C1Num * WindowSum * WindowSum

\* meanA_squared + meanB_squared + C1
LuminanceDenominator(mA, mB) ==
    CScale * (mA * mA + mB * mB) + C1Num * WindowSum * WindowSum

\* 2.0 * covariance + C2, covariance = E[A*B] - meanA * meanB
StructureNumerator(mA, mB, eAB) ==
    2 * CScale * (WindowSum * eAB - mA * mB) + C2Num * WindowSum * WindowSum

\* varianceA + varianceB + C2, variance = E[X^2] - mean^2
ContrastDenominator(mA, mB, eAA, eBB) ==
    CScale * ((WindowSum * eAA - mA * mA) + (WindowSum * eBB - mB * mB))
        + C2Num * WindowSum * WindowSum

\* the entry of ssimMap at (y, x, c):
\* (luminance_numerator * structure_numerator) / (luminance_denominator * contrast_denominator)
SsimMapAt(a, b, y, x, c) ==
    LET mA == GaussianBlur(a, b, "A", y, x, c)
        mB == GaussianBlur(a, b, "B", y, x, c)
        eAA == GaussianBlur(a, b, "AA", y, x, c)
        eBB == GaussianBlur(a, b, "BB", y, x, c)
        eAB == GaussianBlur(a, b, "AB", y, x, c)
    IN [ln |-> LuminanceNumerator(mA, mB),
        ld |-> LuminanceDenominator(mA, mB),
        sn |-> StructureNumerator(mA, mB, eAB),
        sd |-> ContrastDenominator(mA, mB, eAA, eBB)]

\* a returned double: the number -1.0, or cv::mean(ssimMap)[0], the mean of the
\* map entries of channel 0, kept as the entries in row order
SsimSentinel == [kind |-> "number", value |-> -1, map |-> <<>>, computed |-> FALSE]

computeSSIM(a, b) ==
    IF ~SsimAccepts(a, b) THEN SsimSentinel
    ELSE LET floatImageA == ConvertTo32F(a)
             floatImageB == ConvertTo32F(b)
         IN [kind |-> "mean", value |-> 0,
             map |-> [p \in 1..(a.rows * a.cols) |->
                        SsimMapAt(floatImageA, floatImageB,
                                  (p - 1) \div a.cols, (p - 1) % a.cols, 0)],
             computed |-> TRUE]

InitSSIM ==
    /\ imageA \in SsimBuffers \cup {EmptyMat}
    /\ imageB \in SsimSameShape(imageA) \cup Mismatches(imageA)
                    \cup {DepthMismatch(imageA)}
    /\ amount = 0
    /\ threshold = 0
    /\ pc = "ssim"
    /\ result = SsimSentinel
    /\ reverse = SsimSentinel
    /\ params = NoParams

\* computeSSIM(imageA, imageB)
CallSSIM ==
    /\ pc = "ssim"
    /\ result' = computeSSIM(imageA, imageB)
    /\ pc' = "ssim_reverse"
    /\ UNCHANGED <<imageA, imageB, amount, threshold, params, reverse>>

\* computeSSIM(imageB, imageA)
CallSSIMReverse ==
    /\ pc = "ssim_reverse"
    /\ reverse' = computeSSIM(imageB, imageA)
    /\ pc' = "done"
    /\ UNCHANGED <<imageA, imageB, amount, threshold, params, result>>

NextSSIM == CallSSIM \/ CallSSIMReverse

SpecSSIM == InitSSIM /\ [][NextSSIM]_vars

-----------------------------------------------------------------------------
(* Properties of computeSSIM *)

\* a * b = c * d for positive a, b, c, d, compared as the fractions a/c and d/b
\* in lowest terms
ProductsEqual(a, b, c, d) ==
    LET g1 == GCD(a, c)
        g2 == GCD(d, b)
    IN a \div g1 = d \div g2 /\ c \div g1 = b \div g2

\* a map entry whose value is exactly 1
EntryIsOne(e) ==
    /\ e.ln > 0 /\ e.ld > 0 /\ e.sn > 0 /\ e.sd > 0
    /\ ProductsEqual(e.ln, e.sn, e.ld, e.sd)

\* a returned SSIM of exactly 1.0: the mean of a map of ones
SsimIsOne(r) ==
    /\ r.kind = "mean"
    /\ Len(r.map) > 0
    /\ \A p \in 1..Len(r.map) : EntryIsOne(r.map[p])

\* C9: computeSSIM(A, A) = 1.0 for every non-empty buffer A: every entry of the
\* map is 1, so its mean over channel 0 is 1.
SsimIdentity ==
    (pc = "done" /\ ~Empty(imageA) /\ imageB = imageA)
        => /\ SsimIsOne(result)
           /\ Len(result.map) = imageA.rows * imageA.cols

\* a buffer with two different samples in channel 0 compared with itself
SsimSelfCompared ==
    /\ pc = "done"
    /\ imageB = imageA
    /\ imageA.rows * imageA.cols > 1
    /\ At(imageA, 0, 0, 0) # At(imageA, imageA.rows - 1, imageA.cols - 1, 0)
    /\ SsimIsOne(result)

\* C10: computeSSIM returns -1.0 and computes no window statistics when an
\* input is empty, rows or columns differ, or the sample type / channel layout
\* differs.
SsimValidation ==
    (pc = "done" /\ (ContractRejects(imageA, imageB) \/ imageA.depth # imageB.depth))
        => /\ result.kind = "number" /\ result.value = -1
           /\ ~result.computed
           /\ result.map = <<>>

\* a call rejected for the sample depth alone
SsimDepthMismatchRejected ==
    /\ pc = "done"
    /\ ~ContractRejects(imageA, imageB)
    /\ imageA.depth # imageB.depth
    /\ result = SsimSentinel

-----------------------------------------------------------------------------
(* calculateCompositeScore (filters.cpp)                                   *)
(*                                                                         *)
(* A PSNR argument is +infinity or a multiple of 1/Res dB, an SSIM         *)
(* argument a multiple of 1/Res; the score is the exact fraction           *)
(* num / ScoreDen.                                                         *)

\* PSNR arguments range over -1 .. MaxPsnr dB and +infinity
MaxPsnr == 60
\* SSIM arguments range over -1 .. MaxSsim
MaxSsim == 2

\* the divisor of psnr / 50.0
PsnrCap == 50

PsnrArgs == [inf : {FALSE}, num : (0 - Res)..(MaxPsnr * Res)]
                \cup {[inf |-> TRUE, num |-> 0]}

SsimArgs == (0 - Res)..(MaxSsim * Res)

\* psnr < 0
PsnrArgNegative(psnr) == ~psnr.inf /\ psnr.num < 0

\* denominator of every score: 0.5 * (x / 50) with x in units of 1/Res
ScoreDen == 2 * PsnrCap * Res

\* psnr / 50.0 without the cap, in units of 1 / (PsnrCap * Res); only
\* reached for a finite psnr by the operator that replaces NormalizedPsnr
NormalizedPsnrNoCap(psnr) == psnr.num

\* std::min(psnr / 50.0, 1.0), in units of 1 / (PsnrCap * Res)
NormalizedPsnr(psnr) ==
    IF psnr.inf THEN PsnrCap * Res ELSE Min(psnr.num, PsnrCap * Res)

CompositeRejectsPsnrOnly(psnr, ssim) == PsnrArgNegative(psnr)

\* if (psnr < 0 || ssim < 0)
CompositeRejects(psnr, ssim) == PsnrArgNegative(psnr) \/ ssim < 0

CompositeSentinel == [num |-> 0 - ScoreDen, computed |-> FALSE]

calculateCompositeScore(psnr, ssim) ==
    IF CompositeRejects(psnr, ssim)
    THEN CompositeSentinel
    ELSE [num |-> NormalizedPsnr(psnr) + PsnrCap * ssim, computed |-> TRUE]

InitComposite ==
    /\ imageA = EmptyMat
    /\ imageB = EmptyMat
    /\ amount = 0
    /\ threshold = 0
    /\ params \in [psnr : PsnrArgs, ssim : SsimArgs]
    /\ pc = "composite"
    /\ result = CompositeSentinel
    /\ reverse = CompositeSentinel

CallCompositeScore ==
    /\ pc = "composite"
    /\ result' = calculateCompositeScore(params.psnr, params.ssim)
    /\ pc' = "done"
    /\ UNCHANGED <<imageA, imageB, amount, threshold, params, reverse>>

NextComposite == CallCompositeScore

SpecComposite == InitComposite /\ [][NextComposite]_vars

CompositeDone == pc = "done" /\ "psnr" \in DOMAIN params

\* 0.5 * min(psnr / 50, 1) + 0.5 * ssim as a numerator over ScoreDen,
\* written from the contract: psnr at or above 50 dB counts as 1
ContractScore(psnr, ssim) ==
    (IF psnr.inf \/ psnr.num >= PsnrCap * Res THEN PsnrCap * Res
                                              ELSE psnr.num)
    + PsnrCap * ssim

(* C11: for psnr >= 0 (+infinity included) and ssim >= 0 the score is       *)
(* 0.5 * min(psnr / 50, 1) + 0.5 * ssim; it is 1 when psnr >= 50 and        *)
(* ssim = 1, 0 when both are 0, and within [0, 1] whenever psnr >= 0 and    *)
(* ssim is in [0, 1].                                                       *)
CompositeFormula ==
    (CompositeDone /\ ~PsnrArgNegative(params.psnr) /\ params.ssim >= 0) =>
        /\ result.num = ContractScore(params.psnr, params.ssim)
        /\ ((params.psnr.inf \/ params.psnr.num >= PsnrCap * Res)
              /\ params.ssim = Res) => result.num = ScoreDen
        /\ (~params.psnr.inf /\ params.psnr.num = 0 /\ params.ssim = 0)
              => result.num = 0
        /\ params.ssim <= Res => (result.num >= 0 /\ result.num <= ScoreDen)

\* the score of an infinite PSNR and an SSIM of 1 has been computed
CompositePerfectScored ==
    /\ CompositeDone
    /\ params.psnr.inf
    /\ params.ssim = Res
    /\ result.computed
    /\ result.num = ScoreDen

(* C12: the score is the sentinel -1 exactly when psnr < 0 or ssim < 0,     *)
(* and it is never negative when both arguments are non-negative.           *)
CompositeSentinelRule ==
    CompositeDone =>
        /\ (result.num = 0 - ScoreDen)
              <=> (PsnrArgNegative(params.psnr) \/ params.ssim < 0)
        /\ (~PsnrArgNegative(params.psnr) /\ params.ssim >= 0)
              => result.num >= 0

\* a negative SSIM with a valid PSNR has been answered with the sentinel
CompositeNegativeSsimRejected ==
    /\ CompositeDone
    /\ ~PsnrArgNegative(params.psnr)
    /\ params.ssim < 0
    /\ result = CompositeSentinel

-----------------------------------------------------------------------------
(* RGB images and the weights of the filters (tester.cpp)                  *)
(*                                                                         *)
(* An Image is [width, height, pixels], pixels the row-major sequence of   *)
(* <<r, g, b>> triples.  A sigma is given by the base b with               *)
(* exp(-1 / (2 sigma^2)) = 1 / b, so that exp(-e / (2 sigma^2)) = b^(-e);  *)
(* neg tells a negative sigma, which the code squares.  Base 1 is a sigma  *)
(* so large that every weight is the double 1.0.  A weight keeps the       *)
(* binary digits down to 1/WScale (1/RScale for range weights); the sums   *)
(* of weighted samples are exact, and a quotient that double arithmetic    *)
(* computes from inexact weights may come out just below an integer it     *)
(* equals exactly (roundDown), where the cast to unsigned char truncates.  *)

\* image width and height range over 1..MaxSide
MaxSide == 2
\* kernel sizes range over -1 .. MaxKernel
MaxKernel == 4
\* resolution of a spatial weight and of a range weight
WScale == 4096
RScale == 16

Image(w, h, px) == [width |-> w, height |-> h, pixels |-> px]

\* Image::at(x, y)
PixelAt(img, x, y) == img.pixels[y * img.width + x + 1]

\* int division of C++, truncating toward zero
TruncDiv(a, b) == IF a >= 0 THEN a \div b ELSE 0 - ((0 - a) \div b)

\* scale * base^(-e), digits below 1 dropped
RECURSIVE ExpFx(_, _, _)
ExpFx(scale, base, e) ==
    IF e = 0 \/ scale = 0 \/ base = 1 THEN scale
    ELSE ExpFx(scale \div base, base, e - 1)

spatialWeight(dx, dy, sigmaSpatial) ==
    ExpFx(WScale, sigmaSpatial.base, dx * dx + dy * dy)

\* for a diff whose square is representable in int; rangeWeightInt covers
\* every diff
rangeWeight(diff, sigmaRange) == ExpFx(RScale, sigmaRange.base, diff * diff)

colorDifference(p1, p2) ==
    LET dr == p1[1] - p2[1]
        dg == p1[2] - p2[2]
        db == p1[3] - p2[3]
    IN dr * dr + dg * dg + db * db

\* a coordinate wrapped around the image instead
ClampCoordWrap(n, size) == n % size

\* std::max(0, std::min(n, size - 1))
ClampCoord(n, size) == Max(0, Min(n, size - 1))

\* static_cast<unsigned char>(num / den) of a non-negative double below 256;
\* lossy tells that the double quotient may miss an integer from below
CastQuotient(num, den, lossy) ==
    LET q == num \div den
    IN IF lossy /\ q > 0 /\ num % den = 0 THEN q - 1 ELSE q

\* what a filter call gives back: the image, or thrown = TRUE for an
\* exception; taps is the number of neighbours read per output pixel and
\* reach the largest |kx| or |ky| of a neighbour
FilterResult(img, taps, reach) ==
    [image |-> img, thrown |-> FALSE, taps |-> taps, reach |-> reach]

NoImage == Image(0, 0, <<>>)

FilterThrown == [image |-> NoImage, thrown |-> TRUE, taps |-> 0, reach |-> 0]

NoFilterResult == [image |-> NoImage, thrown |-> FALSE, taps |-> 0, reach |-> 0]

-----------------------------------------------------------------------------
(* applyBilateralFilter, applyBilateralFilterFast (tester.cpp)             *)

\* <<nx, ny>>, the coordinate read for the neighbour at offset (kx, ky)
BilateralNeighbour(input, x, y, kx, ky) ==
    <<ClampCoord(x + kx, input.width), ClampCoord(y + ky, input.height)>>

\* the weight of the neighbour at offset (kx, ky) of pixel (x, y)
BilateralWeight(input, x, y, kx, ky, sigmaSpatial, sigmaRange) ==
    LET n == BilateralNeighbour(input, x, y, kx, ky)
        colorDiff == colorDifference(PixelAt(input, x, y),
                                     PixelAt(input, n[1], n[2]))
    IN spatialWeight(kx, ky, sigmaSpatial) * rangeWeight(colorDiff, sigmaRange)

\* sumR, sumG, sumB, sumWeight over the neighbours (kx .. offset, ky) of
\* pixel (x, y): the inner loop
RECURSIVE BilateralRowSums(_, _, _, _, _, _, _, _)
BilateralRowSums(input, x, y, offset, sigmaSpatial, sigmaRange, ky, kx) ==
    IF kx > offset THEN <<0, 0, 0, 0>>
    ELSE LET n == BilateralNeighbour(input, x, y, kx, ky)
             q == PixelAt(input, n[1], n[2])
             w == BilateralWeight(input, x, y, kx, ky, sigmaSpatial, sigmaRange)
             rest == BilateralRowSums(input, x, y, offset, sigmaSpatial,
                                      sigmaRange, ky, kx + 1)
         IN <<rest[1] + q[1] * w, rest[2] + q[2] * w,
              rest[3] + q[3] * w, rest[4] + w>>

\* the same sums over the rows ky .. offset of the window: the outer loop
RECURSIVE BilateralSums(_, _, _, _, _, _, _)
BilateralSums(input, x, y, offset, sigmaSpatial, sigmaRange, ky) ==
    IF ky > offset THEN <<0, 0, 0, 0>>
    ELSE LET row == BilateralRowSums(input, x, y, offset, sigmaSpatial,
                                     sigmaRange, ky, 0 - offset)
             rest == BilateralSums(input, x, y, offset, sigmaSpatial,
                                   sigmaRange, ky + 1)
         IN <<row[1] + rest[1], row[2] + rest[2],
              row[3] + rest[3], row[4] + rest[4]>>

applyBilateralFilter(input, kernelSize, sigmaSpatial, sigmaRange, roundDown) ==
    LET offset == TruncDiv(kernelSize, 2)
        lossy == roundDown /\ offset > 0
        out(i) ==
            LET x == (i - 1) % input.width
                y == (i - 1) \div input.width
                s == BilateralSums(input, x, y, offset, sigmaSpatial, sigmaRange,
                                   0 - offset)
            IN <<CastQuotient(s[1], s[4], lossy),
                 CastQuotient(s[2], s[4], lossy),
                 CastQuotient(s[3], s[4], lossy)>>
    IN FilterResult(Image(input.width, input.height,
                          [i \in 1..(input.width * input.height) |-> out(i)]),
                    (2 * offset + 1) * (2 * offset + 1), offset)

\* the cap of std::min(kernelSize, 9)
FastCap == 9

FastKernelSizeUncapped(kernelSize) == kernelSize

FastKernelSize(kernelSize) == Min(kernelSize, FastCap)

applyBilateralFilterFast(input, kernelSize, sigmaSpatial, sigmaRange, roundDown) ==
    applyBilateralFilter(input, FastKernelSize(kernelSize), sigmaSpatial,
                         sigmaRange, roundDown)

-----------------------------------------------------------------------------
(* applyGaussianBlur (tester.cpp) and applyGaussianBlur (filters.cpp)      *)

\* kernel1D[i] before the division by sum, i = 0 .. kernelSize - 1
KernelTap(i, kernelSize, sigma) ==
    LET center == TruncDiv(kernelSize, 2)
        x == i - center
    IN ExpFx(WScale, sigma.base, x * x)

\* sum of kernel1D[i .. kernelSize - 1]
RECURSIVE KernelSum(_, _, _)
KernelSum(i, kernelSize, sigma) ==
    IF i >= kernelSize THEN 0
    ELSE KernelTap(i, kernelSize, sigma) + KernelSum(i + 1, kernelSize, sigma)

\* the coordinate read for p + k - offset: clamped by tester.cpp, mirrored
\* by the library's default border
BorderCoord(p, size, border) ==
    IF border = "clamp" THEN ClampCoord(p, size) ELSE Reflect101(p, size)

\* <<px, py>>, the coordinate read for tap k of one pass at pixel (x, y)
PassNeighbour(img, x, y, kernelSize, horizontal, border, k) ==
    LET offset == TruncDiv(kernelSize, 2)
    IN IF horizontal
       THEN <<BorderCoord(x + k - offset, img.width, border), y>>
       ELSE <<x, BorderCoord(y + k - offset, img.height, border)>>

\* a pass whose red sum is fed from the green samples
RECURSIVE PassSumsMixed(_, _, _, _, _, _, _, _)
PassSumsMixed(img, x, y, kernelSize, sigma, horizontal, border, k) ==
    IF k >= kernelSize THEN <<0, 0, 0>>
    ELSE LET p == PassNeighbour(img, x, y, kernelSize, horizontal, border, k)
             pixel == PixelAt(img, p[1], p[2])
             weight == KernelTap(k, kernelSize, sigma)
             rest == PassSumsMixed(img, x, y, kernelSize, sigma, horizontal,
                                   border, k + 1)
         IN <<rest[1] + pixel[2] * weight, rest[2] + pixel[2] * weight,
              rest[3] + pixel[3] * weight>>

\* sumR, sumG, sumB of one pass at pixel (x, y) over the taps k .. kernelSize - 1
RECURSIVE PassSums(_, _, _, _, _, _, _, _)
PassSums(img, x, y, kernelSize, sigma, horizontal, border, k) ==
    IF k >= kernelSize THEN <<0, 0, 0>>
    ELSE LET p == PassNeighbour(img, x, y, kernelSize, horizontal, border, k)
             pixel == PixelAt(img, p[1], p[2])
             weight == KernelTap(k, kernelSize, sigma)
             rest == PassSums(img, x, y, kernelSize, sigma, horizontal,
                              border, k + 1)
         IN <<rest[1] + pixel[1] * weight, rest[2] + pixel[2] * weight,
              rest[3] + pixel[3] * weight>>

\* static_cast<unsigned char>(sum) with the weights divided by their sum
CastSum(num, kernelSize, sigma, lossy) ==
    IF kernelSize = 0 THEN 0
    ELSE CastQuotient(num, KernelSum(0, kernelSize, sigma), lossy)

\* cv::saturate_cast<uchar>: to the nearest integer
RoundSum(num, kernelSize, sigma) ==
    LET sum == KernelSum(0, kernelSize, sigma)
    IN (2 * num + sum) \div (2 * sum)

\* one pass over the whole image
GaussPass(img, kernelSize, sigma, horizontal, border, lossy) ==
    LET out(i) ==
            LET x == (i - 1) % img.width
                y == (i - 1) \div img.width
                s == PassSums(img, x, y, kernelSize, sigma, horizontal, border, 0)
            IN IF border = "clamp"
               THEN <<CastSum(s[1], kernelSize, sigma, lossy),
                      CastSum(s[2], kernelSize, sigma, lossy),
                      CastSum(s[3], kernelSize, sigma, lossy)>>
               ELSE <<RoundSum(s[1], kernelSize, sigma),
                      RoundSum(s[2], kernelSize, sigma),
                      RoundSum(s[3], kernelSize, sigma)>>
    IN Image(img.width, img.height,
             [i \in 1..(img.width * img.height) |-> out(i)])

\* tester.cpp: kernel of kernelSize taps at offsets -offset .. kernelSize - 1 - offset;
\* std::vector<double>(kernelSize) throws std::length_error for a negative size
applyGaussianBlur(input, kernelSize, sigma, roundDown) ==
    IF kernelSize < 0 THEN FilterThrown
    ELSE LET lossy == roundDown /\ kernelSize > 1
             temp == GaussPass(input, kernelSize, sigma, TRUE, "clamp", lossy)
             output == GaussPass(temp, kernelSize, sigma, FALSE, "clamp", lossy)
         IN FilterResult(output, kernelSize,
                         Max(TruncDiv(kernelSize, 2),
                             kernelSize - 1 - TruncDiv(kernelSize, 2)))

\* filters.cpp: if (kernelSize % 2 == 0) kernelSize += 1
OddKernelSize(kernelSize) ==
    IF kernelSize % 2 = 0 THEN kernelSize + 1 ELSE kernelSize

\* the sigma cv::GaussianBlur blurs with: a non-positive one is replaced by
\* the library's own positive sigma for the kernel size
CvSigma(sigma) == IF sigma.neg THEN [neg |-> FALSE, base |-> 2] ELSE sigma

\* cv::GaussianBlur(input, output, cv::Size(k, k), sigma, sigma): rejects a
\* kernel size that is not positive and odd with a cv::Exception
cvGaussianBlur(input, ksize, sigma) ==
    IF ksize <= 0 \/ ksize % 2 = 0 THEN FilterThrown
    ELSE LET temp == GaussPass(input, ksize, CvSigma(sigma), TRUE, "reflect", FALSE)
             output == GaussPass(temp, ksize, CvSigma(sigma), FALSE, "reflect", FALSE)
         IN FilterResult(output, ksize, TruncDiv(ksize, 2))

applyGaussianBlurCv(input, kernelSize, sigma) ==
    cvGaussianBlur(input, OddKernelSize(kernelSize), sigma)

-----------------------------------------------------------------------------
(* applySharpen (tester.cpp); amount and the kernel weights in units of    *)
(* 1/Res                                                                   *)

\* kernel[ky][kx] after the scaling loop: the centre is 1 + 4 * amount and
\* every other entry, the corners too, is -amount
SharpenKernel(ky, kx, amt) ==
    IF ky = 1 /\ kx = 1 THEN Res + 4 * amt ELSE 0 - amt

\* <<px, py>>, the coordinate read for kernel entry (ky, kx)
SharpenNeighbour(input, x, y, kx, ky) ==
    <<ClampCoord(x + kx - 1, input.width), ClampCoord(y + ky - 1, input.height)>>

\* sumR, sumG, sumB over the kernel entries i .. 8, counted row by row
RECURSIVE SharpenSums(_, _, _, _, _)
SharpenSums(input, x, y, amt, i) ==
    IF i > 8 THEN <<0, 0, 0>>
    ELSE LET ky == i \div 3
             kx == i % 3
             p == SharpenNeighbour(input, x, y, kx, ky)
             pixel == PixelAt(input, p[1], p[2])
             weight == SharpenKernel(ky, kx, amt)
             rest == SharpenSums(input, x, y, amt, i + 1)
         IN <<rest[1] + pixel[1] * weight, rest[2] + pixel[2] * weight,
              rest[3] + pixel[3] * weight>>

\* static_cast<unsigned char>(std::min(255.0, std::max(0.0, sum)))
CastClamped(sum) == Min(255 * Res, Max(0, sum)) \div Res

applySharpen(input, amt) ==
    LET out(i) ==
            LET s == SharpenSums(input, (i - 1) % input.width,
                                 (i - 1) \div input.width, amt, 0)
            IN <<CastClamped(s[1]), CastClamped(s[2]), CastClamped(s[3])>>
    IN FilterResult(Image(input.width, input.height,
                          [i \in 1..(input.width * input.height) |-> out(i)]),
                    9, 1)

-----------------------------------------------------------------------------
(* The filters of tester.cpp and filters.cpp called on one image           *)

FilterPalette == {<<3, 3, 3>>, <<3, 3, 4>>, <<100, 100, 100>>}

\* "stepx": a vertical edge after the first column; "stepy": a horizontal
\* edge after the first row; "spot": one pixel of another colour
FilterPatterns == {"stepx", "stepy", "spot"}

PatternPixel(pat, x, y, c0, c1) ==
    IF pat = "stepx" THEN (IF x < 1 THEN c0 ELSE c1)
    ELSE IF pat = "stepy" THEN (IF y < 1 THEN c0 ELSE c1)
    ELSE (IF x = 0 /\ y = 0 THEN c1 ELSE c0)

MkImage(w, h, pat, c0, c1) ==
    Image(w, h, [i \in 1..(w * h) |->
                    PatternPixel(pat, (i - 1) % w, (i - 1) \div w, c0, c1)])

FilterImages ==
    {MkImage(w, h, pat, c0, c1) :
        w \in 1..MaxSide, h \in 1..MaxSide, pat \in FilterPatterns,
        c0 \in FilterPalette, c1 \in FilterPalette}

\* kernel sizes; below -1 the bilateral window is empty and the quotient 0/0
KernelSizes == {0 - 1} \cup (0..MaxKernel)

SpatialSigmas == {[neg |-> FALSE, base |-> 2], [neg |-> FALSE, base |-> 4],
                  [neg |-> TRUE, base |-> 2]}

RangeSigmas == {[neg |-> FALSE, base |-> 1], [neg |-> FALSE, base |-> 2]}

\* sigma <= 0
NonPositive(sigma) == sigma.neg

FilterParams ==
    [kernelSize : KernelSizes, sigmaSpatial : SpatialSigmas,
     sigmaRange : RangeSigmas, roundDownBilateral : BOOLEAN,
     roundDownGauss : BOOLEAN]

NoFilterResults ==
    [bilateral |-> NoFilterResult, gauss |-> NoFilterResult,
     cv |-> NoFilterResult, sharpen |-> NoFilterResult]

\* double amount = 1.0, the default of applySharpen, in units of 1/Res
DefaultSharpenAmount == Res

InitFilters ==
    /\ imageA \in FilterImages
    /\ imageB = NoImage
    /\ amount = DefaultSharpenAmount
    /\ threshold = 0
    /\ params \in FilterParams
    /\ pc = "bilateral"
    /\ result = NoFilterResults
    /\ reverse = NoFilterResults

CallBilateralFilter ==
    /\ pc = "bilateral"
    /\ result' = [result EXCEPT !.bilateral =
                     applyBilateralFilter(imageA, params.kernelSize,
                                          params.sigmaSpatial, params.sigmaRange,
                                          params.roundDownBilateral)]
    /\ pc' = "gauss"
    /\ UNCHANGED <<imageA, imageB, amount, threshold, params, reverse>>

CallGaussianBlur ==
    /\ pc = "gauss"
    /\ result' = [result EXCEPT !.gauss =
                     applyGaussianBlur(imageA, params.kernelSize,
                                       params.sigmaSpatial, params.roundDownGauss)]
    /\ pc' = "cv"
    /\ UNCHANGED <<imageA, imageB, amount, threshold, params, reverse>>

CallGaussianBlurCv ==
    /\ pc = "cv"
    /\ result' = [result EXCEPT !.cv =
                     applyGaussianBlurCv(imageA, params.kernelSize,
                                         params.sigmaSpatial)]
    /\ pc' = "sharpen"
    /\ UNCHANGED <<imageA, imageB, amount, threshold, params, reverse>>

\* applySharpen(input) with its default amount
CallSharpenDefault ==
    /\ pc = "sharpen"
    /\ "kernelSize" \in DOMAIN params
    /\ result' = [result EXCEPT !.sharpen = applySharpen(imageA, amount)]
    /\ pc' = "done"
    /\ UNCHANGED <<imageA, imageB, amount, threshold, params, reverse>>

NextFilters ==
    \/ CallBilateralFilter
    \/ CallGaussianBlur
    \/ CallGaussianBlurCv
    \/ CallSharpenDefault

SpecFilters == InitFilters /\ [][NextFilters]_vars

FiltersDone == pc = "done" /\ "kernelSize" \in DOMAIN params

-----------------------------------------------------------------------------
(* Properties of the Gaussian and bilateral filters                        *)

\* the offsets of the taps of the kernel tester.cpp builds for kernelSize
KernelOffsets(kernelSize) ==
    {i - TruncDiv(kernelSize, 2) : i \in 0..(kernelSize - 1)}

\* odd length, and the mirror image of every tap is a tap of equal weight
SymmetricKernel(kernelSize, sigma) ==
    /\ kernelSize % 2 = 1
    /\ \A d \in KernelOffsets(kernelSize) :
          /\ (0 - d) \in KernelOffsets(kernelSize)
          /\ KernelTap(d + TruncDiv(kernelSize, 2), kernelSize, sigma)
               = KernelTap(TruncDiv(kernelSize, 2) - d, kernelSize, sigma)

(* C13: applyGaussianBlur called with an even kernel size k behaves exactly *)
(* as if called with k + 1: the kernel applied has odd length and is        *)
(* symmetric about its centre tap.                                          *)
GaussEvenKernel ==
    (FiltersDone /\ params.kernelSize % 2 = 0) =>
        /\ result.cv = applyGaussianBlurCv(imageA, params.kernelSize + 1,
                                           params.sigmaSpatial)
        /\ result.cv.taps % 2 = 1
        /\ result.gauss = applyGaussianBlur(imageA, params.kernelSize + 1,
                                            params.sigmaSpatial,
                                            params.roundDownGauss)
        /\ SymmetricKernel(result.gauss.taps, params.sigmaSpatial)

\* the part of C13 that is about filters.cpp alone
GaussEvenKernelCv ==
    (FiltersDone /\ params.kernelSize % 2 = 0) =>
        /\ result.cv = applyGaussianBlurCv(imageA, params.kernelSize + 1,
                                           params.sigmaSpatial)
        /\ result.cv.taps % 2 = 1

InvalidParameters ==
    params.kernelSize <= 0 \/ NonPositive(params.sigmaSpatial)
        \/ NonPositive(params.sigmaRange)

\* the sentinel of a rejected call: an empty buffer, nothing thrown, no
\* neighbour read
Rejected(r) == r.image = NoImage /\ ~r.thrown /\ r.taps = 0

(* C14: the Gaussian filter and the bilateral filter answer a kernel size   *)
(* <= 0 or a sigma <= 0 with an empty buffer, without an exception and      *)
(* without computing any output sample.                                     *)
InvalidParametersRejected ==
    (FiltersDone /\ InvalidParameters) =>
        /\ Rejected(result.bilateral)
        /\ Rejected(result.gauss)
        /\ Rejected(result.cv)

\* every pixel has the colour of the first
UniformImage(img) == \A i \in 1..Len(img.pixels) : img.pixels[i] = img.pixels[1]

(* C15: for a uniform image of any size, every kernel size >= 1 and every   *)
(* sigma > 0, applyGaussianBlur and applyBilateralFilter give back every    *)
(* pixel unchanged.                                                         *)
UniformPreserved ==
    (FiltersDone /\ UniformImage(imageA) /\ params.kernelSize >= 1
        /\ ~NonPositive(params.sigmaSpatial) /\ ~NonPositive(params.sigmaRange)) =>
        /\ result.gauss.image = imageA
        /\ result.bilateral.image = imageA

\* C15 where every quotient is computed exactly
UniformPreservedExact ==
    (FiltersDone /\ UniformImage(imageA) /\ params.kernelSize >= 1
        /\ ~params.roundDownGauss /\ ~params.roundDownBilateral) =>
        /\ result.gauss.image = imageA
        /\ result.bilateral.image = imageA

\* two flat regions of different colours meeting at a vertical or a
\* horizontal edge
IsStepEdgeImage(img) ==
    \E c0 \in FilterPalette : \E c1 \in FilterPalette \ {c0} :
        \/ img.width >= 2 /\ img = MkImage(img.width, img.height, "stepx", c0, c1)
        \/ img.height >= 2 /\ img = MkImage(img.width, img.height, "stepy", c0, c1)

\* every range weight is 1
UniformRangeWeight(sigmaRange) == sigmaRange.base = 1

(* C19: on a step-edge image, applyBilateralFilter with odd kernel size k,  *)
(* spatial sigma s and a range sigma that makes every range weight 1 gives  *)
(* the same output pixels as applyGaussianBlur with the same k and s.       *)
BilateralEqualsGaussian ==
    (FiltersDone /\ IsStepEdgeImage(imageA) /\ params.kernelSize >= 1
        /\ params.kernelSize % 2 = 1 /\ ~NonPositive(params.sigmaSpatial)
        /\ UniformRangeWeight(params.sigmaRange)) =>
        result.bilateral.image = result.gauss.image

\* C19 where every quotient is computed exactly
BilateralEqualsGaussianExact ==
    (FiltersDone /\ IsStepEdgeImage(imageA) /\ params.kernelSize >= 1
        /\ params.kernelSize % 2 = 1 /\ UniformRangeWeight(params.sigmaRange)
        /\ ~params.roundDownGauss /\ ~params.roundDownBilateral) =>
        result.bilateral.image = result.gauss.image

\* the stored sample is sum(w * q) / sum(w) brought to a whole number: it
\* is less than one away from the quotient sumQ / sumW
StoresQuotient(stored, sumQ, sumW) == Abs(stored * sumW - sumQ) < sumW

\* every sample of out is the weighted mean over the window of the given
\* reach around its pixel, with the weights of BilateralWeight
WeightedMeans(input, out, reach, sigmaSpatial, sigmaRange) ==
    \A i \in 1..(input.width * input.height) :
        LET x == (i - 1) % input.width
            y == (i - 1) \div input.width
            s == BilateralSums(input, x, y, reach, sigmaSpatial, sigmaRange,
                               0 - reach)
        IN \A c \in 1..3 : StoresQuotient(out.pixels[i][c], s[c], s[4])

(* C20: for every output pixel p and kernel size k, applyBilateralFilter    *)
(* visits exactly the k x k clamped neighbourhood of p, weighs neighbour q  *)
(* by exp(-|p-q|^2 / (2 sigmaS^2)) * exp(-colorDist^2 / (2 sigmaR^2)) with  *)
(* colorDist the sum of squared channel differences to the centre pixel of  *)
(* the input, and stores per channel sum(w * q) / sum(w).                   *)
BilateralDefinition ==
    (FiltersDone /\ params.kernelSize >= 1) =>
        /\ result.bilateral.taps = params.kernelSize * params.kernelSize
        /\ WeightedMeans(imageA, result.bilateral.image, result.bilateral.reach,
                         params.sigmaSpatial, params.sigmaRange)

\* C20 for odd kernel sizes where every quotient is computed exactly
BilateralDefinitionOddExact ==
    (FiltersDone /\ params.kernelSize >= 1 /\ params.kernelSize % 2 = 1
        /\ ~params.roundDownBilateral) =>
        /\ result.bilateral.taps = params.kernelSize * params.kernelSize
        /\ WeightedMeans(imageA, result.bilateral.image, result.bilateral.reach,
                         params.sigmaSpatial, params.sigmaRange)

-----------------------------------------------------------------------------
(* applyBilateralFilterFast against applyBilateralFilter                   *)

\* kernel sizes of the fast path range over -1 .. MaxFastKernel
MaxFastKernel == 11

\* one-row images: a flat row or a row with an edge after its first pixel
FastImages ==
    {MkImage(w, 1, "stepx", c0, c1) :
        w \in 1..MaxSide, c0 \in FilterPalette, c1 \in FilterPalette}

FastParams ==
    [kernelSize : {0 - 1} \cup (0..MaxFastKernel), sigmaSpatial : SpatialSigmas,
     sigmaRange : RangeSigmas, roundDownBilateral : BOOLEAN]

InitFast ==
    /\ imageA \in FastImages
    /\ imageB = NoImage
    /\ amount = 0
    /\ threshold = 0
    /\ params \in FastParams
    /\ pc = "fast"
    /\ result = NoFilterResult
    /\ reverse = NoFilterResult

CallBilateralFilterFast ==
    /\ pc = "fast"
    /\ result' = applyBilateralFilterFast(imageA, params.kernelSize,
                                          params.sigmaSpatial, params.sigmaRange,
                                          params.roundDownBilateral)
    /\ pc' = "full"
    /\ UNCHANGED <<imageA, imageB, amount, threshold, params, reverse>>

\* the full filter on the same arguments, kept in reverse
CallBilateralFilterFull ==
    /\ pc = "full"
    /\ reverse' = applyBilateralFilter(imageA, params.kernelSize,
                                       params.sigmaSpatial, params.sigmaRange,
                                       params.roundDownBilateral)
    /\ pc' = "done"
    /\ UNCHANGED <<imageA, imageB, amount, threshold, params, result>>

NextFast == CallBilateralFilterFast \/ CallBilateralFilterFull

SpecFast == InitFast /\ [][NextFast]_vars

FastDone == pc = "done" /\ "roundDownBilateral" \in DOMAIN params
                /\ "roundDownGauss" \notin DOMAIN params

(* C16: applyBilateralFilterFast(input, k, sigmaS, sigmaR) returns exactly  *)
(* applyBilateralFilter(input, min(k, 9), sigmaS, sigmaR); it equals the    *)
(* full filter for every k <= 9 and never visits a neighbourhood larger     *)
(* than 9 x 9.                                                              *)
FastPathCapped ==
    FastDone =>
        /\ result = applyBilateralFilter(
                        imageA,
                        IF params.kernelSize < 9 THEN params.kernelSize ELSE 9,
                        params.sigmaSpatial, params.sigmaRange,
                        params.roundDownBilateral)
        /\ params.kernelSize <= 9 => result = reverse
        /\ result.taps <= 9 * 9
        /\ result.reach <= 4

\* a request above the cap was served by the 9 x 9 window, where the full
\* filter read a larger one
FastPathCapApplied ==
    /\ FastDone
    /\ params.kernelSize > 9
    /\ result.taps = 9 * 9
    /\ reverse.taps > 9 * 9

-----------------------------------------------------------------------------
(* applySharpen called on one image                                       *)

SharpenPalette == {<<0, 0, 0>>, <<40, 50, 60>>, <<255, 255, 255>>}

SharpenImages ==
    {MkImage(w, h, pat, c0, c1) :
        w \in 1..MaxSide, h \in 1..MaxSide, pat \in FilterPatterns,
        c0 \in SharpenPalette, c1 \in SharpenPalette}

InitSharpen ==
    /\ imageA \in SharpenImages
    /\ imageB = NoImage
    /\ amount \in 0..MaxAmount
    /\ threshold = 0
    /\ params = NoParams
    /\ pc = "sharpen"
    /\ result = NoFilterResult
    /\ reverse = NoFilterResult

CallSharpen ==
    /\ pc = "sharpen"
    /\ result' = applySharpen(imageA, amount)
    /\ pc' = "done"
    /\ UNCHANGED <<imageA, imageB, amount, threshold, params, reverse>>

NextSharpen == CallSharpen

SpecSharpen == InitSharpen /\ [][NextSharpen]_vars

SharpenDone == pc = "done" /\ imageA \in SharpenImages

\* the kernel of the contract: centre 1 + 4 * amount, the four orthogonal
\* neighbours -amount, the four corners 0
ContractSharpenKernel(ky, kx, amt) ==
    IF ky = 1 /\ kx = 1 THEN Res + 4 * amt
    ELSE IF ky = 1 \/ kx = 1 THEN 0 - amt
    ELSE 0

\* the clamped convolution of channel c at pixel (x, y) with that kernel
ContractSharpenSample(input, x, y, c, amt) ==
    LET at(ky, kx) == PixelAt(input, ClampCoord(x + kx - 1, input.width),
                                     ClampCoord(y + ky - 1, input.height))[c]
        sum == ContractSharpenKernel(1, 1, amt) * at(1, 1)
                 + ContractSharpenKernel(0, 1, amt) * at(0, 1)
                 + ContractSharpenKernel(1, 0, amt) * at(1, 0)
                 + ContractSharpenKernel(1, 2, amt) * at(1, 2)
                 + ContractSharpenKernel(2, 1, amt) * at(2, 1)
    IN Min(255 * Res, Max(0, sum)) \div Res

(* C17: applySharpen convolves each channel with the 3 x 3 kernel of centre *)
(* 1 + 4 * amount, orthogonal neighbours -amount and corners 0 (weights     *)
(* summing to 1) and clamps each result into [0, 255].                      *)
SharpenFixedKernel ==
    SharpenDone =>
        /\ \A ky \in 0..2, kx \in 0..2 :
              SharpenKernel(ky, kx, amount) = ContractSharpenKernel(ky, kx, amount)
        /\ \A i \in 1..(imageA.width * imageA.height) : \A c \in 1..3 :
              result.image.pixels[i][c]
                 = ContractSharpenSample(imageA, (i - 1) % imageA.width,
                                         (i - 1) \div imageA.width, c, amount)

\* C17 at amount 0, where both kernels are the identity
SharpenIdentityAtZero ==
    (SharpenDone /\ amount = 0) => result.image = imageA

-----------------------------------------------------------------------------
(* The command line of main.cpp                                            *)
(*                                                                         *)
(* imageA is what the file named by argv[2] decodes to and imageB what the *)
(* file named by argv[3] decodes to: a 3-channel 8-bit buffer, or the      *)
(* empty buffer when cv::imread cannot load the file.                      *)

\* a 3-channel 8-bit buffer as an image of tester.cpp's shape, and back
AsImage(m) ==
    Image(m.cols, m.rows,
          [i \in 1..(m.rows * m.cols) |->
              <<m.data[3 * i - 2], m.data[3 * i - 1], m.data[3 * i]>>])

AsMat(img) ==
    [rows |-> img.height, cols |-> img.width, channels |-> 3, depth |-> "8U",
     data |-> [j \in 1..(3 * img.width * img.height) |->
                  img.pixels[((j - 1) \div 3) + 1][((j - 1) % 3) + 1]]]

\* int gaussianKernelSize = 5
GaussianKernelSize == 5

\* double gaussianSigma = 1.0: exp(-1/2) is 0.61, taken as the weight ratio 1/2
GaussianSigma == [neg |-> FALSE, base |-> 2]

\* double sharpenAmount = 1.5 and double sharpenThreshold = 0.0, in units of
\* 1/Res
SharpenAmount == (3 * Res) \div 2
SharpenThreshold == 0

\* applyGaussianBlur(compressedImage, gaussianKernelSize, gaussianSigma)
BlurStep(compressed) ==
    LET r == applyGaussianBlurCv(AsImage(compressed), GaussianKernelSize,
                                 GaussianSigma)
    IN IF r.thrown THEN EmptyMat ELSE AsMat(r.image)

\* ssim < 0 for a returned SSIM: the sentinel, or a mean of map entries
\* none of which is positive and one of which is negative (ld, sd and ln are
\* positive, so the sign of an entry is the sign of sn)
SsimNegative(r) ==
    IF r.kind = "number" THEN r.value < 0
    ELSE /\ \A p \in 1..Len(r.map) : r.map[p].sn <= 0
         /\ \E p \in 1..Len(r.map) : r.map[p].sn < 0

\* the entries of a returned mean do not all have one sign
SsimMixedSigns(r) ==
    /\ r.kind = "mean"
    /\ \E p \in 1..Len(r.map) : r.map[p].sn < 0
    /\ \E p \in 1..Len(r.map) : r.map[p].sn > 0

\* an edge of low contrast, as compression leaves it
SoftEdge == MkBuf(1, MaxDim, 3, "8U", "step", 9, 3)

\* the files the two paths can name
CliFiles ==
    {EmptyMat, SoftEdge} \cup
    {MkBuf(1, c, 3, "8U", "step", v0, v1) :
        c \in Dims, v0 \in SsimPalette, v1 \in SsimPalette}

\* argc ranges over 1 .. MaxArgc
MaxArgc == 5

CliModes == {"--test", "-t", "--practical", "-p", "--other"}

TestMode(mode) == mode = "--test" \/ mode = "-t"

PracticalMode(mode) == mode = "--practical" \/ mode = "-p"

\* calculateCompositeScore on a returned PSNR and a returned SSIM: whether it
\* gives its sentinel, and the two scores it combines
CliComposite(psnr, ssim) ==
    [sentinel |-> PsnrNegative(psnr) \/ SsimNegative(ssim),
     psnr |-> psnr, ssim |-> ssim]

NoComposite == [sentinel |-> FALSE, psnr |-> PsnrSentinel, ssim |-> SsimSentinel]

\* bounds of the fraction n / d, n >= 0 and d >= 2048, in units of 1/1024:
\* both numbers are cut by 2048 so that the products stay within range
RatioLo(n, d) == ((n \div 2048) * 1024) \div ((d \div 2048) + 1)

RatioHi(n, d) == (((n \div 2048) + 1) * 1024) \div (d \div 2048) + 1

\* bounds of one entry (ln / ld) * (sn / sd) of an SSIM map, in units of 2^-20
EntryLo(e) ==
    IF e.sn >= 0 THEN RatioLo(e.ln, e.ld) * RatioLo(e.sn, e.sd)
    ELSE 0 - RatioHi(e.ln, e.ld) * RatioHi(0 - e.sn, e.sd)

EntryHi(e) ==
    IF e.sn >= 0 THEN RatioHi(e.ln, e.ld) * RatioHi(e.sn, e.sd)
    ELSE 0 - RatioLo(e.ln, e.ld) * RatioLo(0 - e.sn, e.sd)

RECURSIVE MapLo(_, _)
MapLo(map, p) == IF p > Len(map) THEN 0 ELSE EntryLo(map[p]) + MapLo(map, p + 1)

RECURSIVE MapHi(_, _)
MapHi(map, p) == IF p > Len(map) THEN 0 ELSE EntryHi(map[p]) + MapHi(map, p + 1)

\* how the SSIM e compares with the SSIM b of a map of the same size
SsimOrder(e, b) ==
    IF e.map = b.map THEN "equal"
    ELSE IF MapLo(e.map, 1) > MapHi(b.map, 1) THEN "greater"
    ELSE IF MapHi(e.map, 1) < MapLo(b.map, 1) THEN "less"
    ELSE "undecided"

\* std::min(psnr / 50.0, 1.0) is 1: psnr is +infinity or at least 50 dB,
\* that is max^2 / mse >= 10^5
PsnrCapped(p) ==
    \/ p.kind = "inf"
    \/ p.kind = "db" /\ p.max * p.max * p.mseDen >= 100000 * p.mseNum

\* how the normalized PSNR of e compares with that of b (same max): below
\* the cap the PSNR grows as the mean squared error falls
PsnrOrder(e, b) ==
    IF PsnrCapped(e) /\ PsnrCapped(b) THEN "equal"
    ELSE IF PsnrCapped(e) THEN "greater"
    ELSE IF PsnrCapped(b) THEN "less"
    ELSE IF e.mseNum * b.mseDen < b.mseNum * e.mseDen THEN "greater"
    ELSE IF e.mseNum * b.mseDen > b.mseNum * e.mseDen THEN "less"
    ELSE "equal"

\* how the composite score e compares with b: both are
\* 0.5 * normalizedPSNR + 0.5 * ssim, so the order follows when the two
\* terms agree or one of them is equal; "undecided" when they disagree
ScoreOrder(e, b) ==
    LET p == PsnrOrder(e.psnr, b.psnr)
        q == SsimOrder(e.ssim, b.ssim)
    IN IF p = "equal" THEN q
       ELSE IF q = "equal" \/ q = p THEN p
       ELSE "undecided"

\* a verdict of PASS for a score that is merely not lower
VerdictsNotLess(e, b) ==
    IF ScoreOrder(e, b) = "less" THEN {"FAIL"} ELSE {"PASS"}

\* the verdicts if (enhancedComposite > baselineComposite) can print
Verdicts(e, b) ==
    LET o == ScoreOrder(e, b)
    IN IF o = "greater" THEN {"PASS"}
       ELSE IF o = "undecided" THEN {"PASS", "FAIL"}
       ELSE {"FAIL"}

\* the run so far: the steps passed in order, the metrics, and the value
\* main returned once exited
NoRun ==
    [exited |-> FALSE, code |-> 0, steps |-> <<>>, verdict |-> "none",
     baselinePSNR |-> PsnrSentinel, baselineSSIM |-> SsimSentinel,
     baselineComposite |-> NoComposite,
     enhancedPSNR |-> PsnrSentinel, enhancedSSIM |-> SsimSentinel,
     enhancedComposite |-> NoComposite]

NoBuffers == [blurred |-> EmptyMat, enhanced |-> EmptyMat]

\* the compressed image: argv[3] in test mode, argv[2] in practical mode
Compressed == IF TestMode(params.mode) THEN imageB ELSE imageA

\* the image the enhanced one is measured against: the clean image in test
\* mode, the compressed image itself in practical mode
Reference == imageA

InitCli ==
    /\ imageA \in CliFiles
    /\ imageB \in CliFiles
    /\ amount = SharpenAmount
    /\ threshold = SharpenThreshold
    /\ params \in [argc : 1..MaxArgc, mode : CliModes]
    /\ pc = "main"
    /\ result = NoRun
    /\ reverse = NoBuffers

\* return -1
Fail ==
    /\ pc' = "exit"
    /\ result' = [result EXCEPT !.exited = TRUE, !.code = 0 - 1]

\* the step passed: go on with the next one
Pass(step, next, run) ==
    /\ pc' = next
    /\ result' = [run EXCEPT !.steps = Append(@, step)]

\* main: argument count and mode
CliMain ==
    /\ pc = "main"
    /\ IF params.argc < 3 THEN Fail
       ELSE IF TestMode(params.mode)
            THEN (IF params.argc # 4 THEN Fail
                  ELSE Pass("arguments", "load_clean", result))
       ELSE IF PracticalMode(params.mode)
            THEN (IF params.argc # 3 THEN Fail
                  ELSE Pass("arguments", "load_compressed", result))
       ELSE Fail
    /\ UNCHANGED <<imageA, imageB, amount, threshold, params, reverse>>

\* runTestingMode: cv::imread(cleanImagePath)
CliLoadClean ==
    /\ pc = "load_clean"
    /\ IF Empty(imageA) THEN Fail
       ELSE Pass("load_clean", "load_compressed", result)
    /\ UNCHANGED <<imageA, imageB, amount, threshold, params, reverse>>

\* cv::imread(compressedImagePath), in either mode
CliLoadCompressed ==
    /\ pc = "load_compressed"
    /\ IF Empty(Compressed) THEN Fail
       ELSE Pass("load_compressed",
                 IF TestMode(params.mode) THEN "dimensions" ELSE "blur", result)
    /\ UNCHANGED <<imageA, imageB, amount, threshold, params, reverse>>

\* runTestingMode: cleanImage.size() != compressedImage.size()
CliCheckDimensions ==
    /\ pc = "dimensions"
    /\ IF imageA.rows # imageB.rows \/ imageA.cols # imageB.cols THEN Fail
       ELSE Pass("dimensions", "baseline_psnr", result)
    /\ UNCHANGED <<imageA, imageB, amount, threshold, params, reverse>>

CliBaselinePSNR ==
    /\ pc = "baseline_psnr"
    /\ LET psnr == calculatePSNR(imageA, imageB)
       IN IF PsnrNegative(psnr) THEN Fail
          ELSE Pass("baseline_psnr", "baseline_ssim",
                    [result EXCEPT !.baselinePSNR = psnr])
    /\ UNCHANGED <<imageA, imageB, amount, threshold, params, reverse>>

\* the baseline SSIM passed on without the check baselineSSIM < 0
CliBaselineSSIMUnchecked ==
    /\ pc = "baseline_ssim"
    /\ Pass("baseline_ssim", "baseline_composite",
            [result EXCEPT !.baselineSSIM = computeSSIM(imageA, imageB)])
    /\ UNCHANGED <<imageA, imageB, amount, threshold, params, reverse>>

CliBaselineSSIM ==
    /\ pc = "baseline_ssim"
    /\ LET ssim == computeSSIM(imageA, imageB)
       IN IF SsimNegative(ssim) THEN Fail
          ELSE Pass("baseline_ssim", "baseline_composite",
                    [result EXCEPT !.baselineSSIM = ssim])
    /\ UNCHANGED <<imageA, imageB, amount, threshold, params, reverse>>

CliBaselineComposite ==
    /\ pc = "baseline_composite"
    /\ Pass("baseline_composite", "blur",
            [result EXCEPT !.baselineComposite =
                CliComposite(result.baselinePSNR, result.baselineSSIM)])
    /\ UNCHANGED <<imageA, imageB, amount, threshold, params, reverse>>

CliBlur ==
    /\ pc = "blur"
    /\ LET blurred == BlurStep(Compressed)
       IN /\ reverse' = [reverse EXCEPT !.blurred = blurred]
          /\ IF Empty(blurred) THEN Fail ELSE Pass("blur", "unsharp", result)
    /\ UNCHANGED <<imageA, imageB, amount, threshold, params>>

CliUnsharp ==
    /\ pc = "unsharp"
    /\ LET enhanced ==
              applyUnsharpMask(Compressed, reverse.blurred, amount, threshold, 0).mat
       IN /\ reverse' = [reverse EXCEPT !.enhanced = enhanced]
          /\ IF Empty(enhanced) THEN Fail
             ELSE Pass("unsharp", "enhanced_psnr", result)
    /\ UNCHANGED <<imageA, imageB, amount, threshold, params>>

CliEnhancedPSNR ==
    /\ pc = "enhanced_psnr"
    /\ LET psnr == calculatePSNR(Reference, reverse.enhanced)
       IN IF PsnrNegative(psnr) THEN Fail
          ELSE Pass("enhanced_psnr", "enhanced_ssim",
                    [result EXCEPT !.enhancedPSNR = psnr])
    /\ UNCHANGED <<imageA, imageB, amount, threshold, params, reverse>>

CliEnhancedSSIM ==
    /\ pc = "enhanced_ssim"
    /\ LET ssim == computeSSIM(Reference, reverse.enhanced)
       IN IF SsimNegative(ssim) THEN Fail
          ELSE Pass("enhanced_ssim", "enhanced_composite",
                    [result EXCEPT !.enhancedSSIM = ssim])
    /\ UNCHANGED <<imageA, imageB, amount, threshold, params, reverse>>

\* the last composite score; runPracticalMode then reports and returns 0
CliEnhancedComposite ==
    /\ pc = "enhanced_composite"
    /\ LET run == [result EXCEPT
                      !.enhancedComposite =
                          CliComposite(result.enhancedPSNR, result.enhancedSSIM),
                      !.steps = Append(@, "enhanced_composite")]
       IN IF TestMode(params.mode)
          THEN pc' = "verdict" /\ result' = run
          ELSE pc' = "exit"
               /\ result' = [run EXCEPT !.exited = TRUE, !.code = 0]
    /\ UNCHANGED <<imageA, imageB, amount, threshold, params, reverse>>

\* runTestingMode: TEST RESULT, return 0
CliVerdict ==
    /\ pc = "verdict"
    /\ \E v \in Verdicts(result.enhancedComposite, result.baselineComposite) :
           result' = [result EXCEPT !.verdict = v,
                                    !.steps = Append(@, "verdict"),
                                    !.exited = TRUE, !.code = 0]
    /\ pc' = "exit"
    /\ UNCHANGED <<imageA, imageB, amount, threshold, params, reverse>>

NextCli ==
    \/ CliMain
    \/ CliLoadClean
    \/ CliLoadCompressed
    \/ CliCheckDimensions
    \/ CliBaselinePSNR
    \/ CliBaselineSSIM
    \/ CliBaselineComposite
    \/ CliBlur
    \/ CliUnsharp
    \/ CliEnhancedPSNR
    \/ CliEnhancedSSIM
    \/ CliEnhancedComposite
    \/ CliVerdict

SpecCli == InitCli /\ [][NextCli]_vars

CliExited == pc = "exit" /\ "argc" \in DOMAIN params

\* the mode is not recognised or the argument count is wrong for the mode
BadArguments ==
    \/ params.argc < 3
    \/ ~(TestMode(params.mode) \/ PracticalMode(params.mode))
    \/ TestMode(params.mode) /\ params.argc # 4
    \/ PracticalMode(params.mode) /\ params.argc # 3

\* an image of the run does not load
LoadFailure ==
    \/ Empty(imageA)
    \/ TestMode(params.mode) /\ Empty(imageB)

\* the two images of test mode differ in dimensions
DimensionMismatch ==
    /\ TestMode(params.mode)
    /\ (imageA.rows # imageB.rows \/ imageA.cols # imageB.cols)

(* C18: main returns a nonzero code when an image fails to load, when the   *)
(* two images of test mode differ in dimensions, when the mode is not       *)
(* recognised or the argument count is wrong for the mode; in every other   *)
(* run it returns 0.                                                        *)
CliExitCode ==
    CliExited =>
        (result.code # 0 <=> (BadArguments \/ LoadFailure \/ DimensionMismatch))

\* the half of C18 about the failures it lists
CliFailuresReported ==
    (CliExited /\ (BadArguments \/ LoadFailure \/ DimensionMismatch))
        => result.code # 0

\* the sign of every SSIM the runs compute is decided by SsimNegative
CliSsimSignsDecided ==
    /\ "baselineSSIM" \in DOMAIN result => ~SsimMixedSigns(result.baselineSSIM)
    /\ "enhancedSSIM" \in DOMAIN result => ~SsimMixedSigns(result.enhancedSSIM)

\* runTestingMode has been entered and main has returned
TestRunExited == CliExited /\ TestMode(params.mode) /\ params.argc = 4

\* the steps C23 lists, in its order
ListedSteps ==
    <<"load_clean", "load_compressed", "dimensions", "baseline_psnr",
      "baseline_ssim", "blur", "unsharp", "enhanced_psnr", "enhanced_ssim">>

\* those of the steps passed that C23 lists, in the order they were passed
ListedOf(steps) ==
    LET Listed(step) == \E i \in 1..Len(ListedSteps) : ListedSteps[i] = step
    IN SelectSeq(steps, Listed)

\* the enhanced image of a run on the compressed image b
EnhancedOf(b) ==
    applyUnsharpMask(b, BlurStep(b), SharpenAmount, SharpenThreshold, 0).mat

\* one of the listed steps fails for the images of the run
StepFails ==
    \/ Empty(imageA)
    \/ Empty(imageB)
    \/ imageA.rows # imageB.rows \/ imageA.cols # imageB.cols
    \/ PsnrNegative(calculatePSNR(imageA, imageB))
    \/ SsimNegative(computeSSIM(imageA, imageB))
    \/ Empty(BlurStep(imageB))
    \/ Empty(EnhancedOf(imageB))
    \/ PsnrNegative(calculatePSNR(imageA, EnhancedOf(imageB)))
    \/ SsimNegative(computeSSIM(imageA, EnhancedOf(imageB)))

\* how the enhanced composite score of the run's images compares with the
\* baseline one
Improvement ==
    ScoreOrder(CliComposite(calculatePSNR(imageA, EnhancedOf(imageB)),
                            computeSSIM(imageA, EnhancedOf(imageB))),
               CliComposite(calculatePSNR(imageA, imageB),
                            computeSSIM(imageA, imageB)))

(* C23: in runTestingMode a PASS/FAIL verdict is printed only after load   *)
(* clean image, load compressed image, dimension check, baseline PSNR,      *)
(* baseline SSIM, Gaussian blur, unsharp mask, enhanced PSNR and enhanced   *)
(* SSIM have all succeeded in this order; a failure of any step ends the    *)
(* run with a nonzero return and no verdict; the verdict is PASS exactly    *)
(* when the enhanced composite score is strictly greater than the baseline  *)
(* composite score.                                                         *)
TestModeOrdering ==
    /\ result.verdict # "none" =>
          /\ TestMode(params.mode)
          /\ ListedOf(result.steps) = ListedSteps
          /\ result.steps[Len(result.steps)] = "verdict"
    /\ TestRunExited =>
          IF StepFails
          THEN result.code # 0 /\ result.verdict = "none"
          ELSE /\ result.code = 0
               /\ result.verdict \in {"PASS", "FAIL"}
               /\ Improvement = "greater" => result.verdict = "PASS"
               /\ Improvement \in {"less", "equal"} => result.verdict = "FAIL"

\* a test run has passed every step and printed PASS for a score that rose
TestModePassPrinted ==
    /\ TestRunExited
    /\ result.verdict = "PASS"
    /\ result.code = 0
    /\ ListedOf(result.steps) = ListedSteps
    /\ Improvement = "greater"

\* a test run has printed FAIL for a score that did not change
TestModeFailPrinted ==
    /\ TestRunExited
    /\ result.verdict = "FAIL"
    /\ Improvement = "equal"

\* the order of the two composite scores of a verdict follows from the
\* orders of their terms
CliVerdictsDecided ==
    result.verdict # "none" => Improvement # "undecided"

-----------------------------------------------------------------------------
(* Coordinates read at the image border (tester.cpp)                       *)

Coords(img) ==
    {<<x, y>> : x \in 0..(img.width - 1), y \in 0..(img.height - 1)}

\* the pairs <<requested, read>> of every neighbour of every pixel:
\* requested is the coordinate before the clamp, read the one passed to at()
BilateralReads(input, kernelSize) ==
    LET offset == TruncDiv(kernelSize, 2)
    IN {<< <<c[1] + kx, c[2] + ky>>,
           BilateralNeighbour(input, c[1], c[2], kx, ky) >> :
           c \in Coords(input),
           kx \in (0 - offset)..offset, ky \in (0 - offset)..offset}

\* the horizontal pass reads input, the vertical pass temp of the same size
GaussReads(input, kernelSize) ==
    LET offset == TruncDiv(kernelSize, 2)
    IN {<< <<c[1] + k - offset, c[2]>>,
           PassNeighbour(input, c[1], c[2], kernelSize, TRUE, "clamp", k) >> :
           c \in Coords(input), k \in 0..(kernelSize - 1)}
       \cup
       {<< <<c[1], c[2] + k - offset>>,
           PassNeighbour(input, c[1], c[2], kernelSize, FALSE, "clamp", k) >> :
           c \in Coords(input), k \in 0..(kernelSize - 1)}

SharpenReads(input) ==
    {<< <<c[1] + kx - 1, c[2] + ky - 1>>,
        SharpenNeighbour(input, c[1], c[2], kx, ky) >> :
        c \in Coords(input), kx \in 0..2, ky \in 0..2}

\* the coordinate of 0 .. size - 1 closest to n
Nearest(n, size) ==
    CHOOSE v \in 0..(size - 1) :
        \A u \in 0..(size - 1) :
            Abs(v - n) <= Abs(u - n)

\* every coordinate read is inside the image and is the valid coordinate
\* nearest to the requested one
ReadsClamped(input, reads) ==
    \A r \in reads :
        /\ r[2][1] \in 0..(input.width - 1)
        /\ r[2][2] \in 0..(input.height - 1)
        /\ r[2] = <<Nearest(r[1][1], input.width),
                    Nearest(r[1][2], input.height)>>

SameSize(input, r) ==
    /\ ~r.thrown
    /\ r.image.width = input.width
    /\ r.image.height = input.height
    /\ Len(r.image.pixels) = input.width * input.height

(* C21: in applyBilateralFilter, applyGaussianBlur and applySharpen, for    *)
(* every image of size >= 1x1 and every kernel size >= 1, each neighbour    *)
(* coordinate read lies in [0, width) x [0, height), a coordinate outside   *)
(* that range is replaced by the nearest valid one (not wrapped, not read   *)
(* as zero), and the output has the width and height of the input.          *)
BorderClamped ==
    (FiltersDone /\ params.kernelSize >= 1) =>
        /\ ReadsClamped(imageA, BilateralReads(imageA, params.kernelSize))
        /\ ReadsClamped(imageA, GaussReads(imageA, params.kernelSize))
        /\ ReadsClamped(imageA, SharpenReads(imageA))
        /\ SameSize(imageA, result.bilateral)
        /\ SameSize(imageA, result.gauss)
        /\ SameSize(imageA, result.sharpen)

\* the three filters have run on an image one pixel wide with a kernel that
\* reaches over both of its side borders
BorderClampedAtEdge ==
    /\ FiltersDone
    /\ params.kernelSize = 3
    /\ imageA.width = 1
    /\ imageA.height = 2
    /\ \E r \in BilateralReads(imageA, params.kernelSize) : r[1] # r[2]
    /\ \E r \in GaussReads(imageA, params.kernelSize) : r[1] # r[2]
    /\ \E r \in SharpenReads(imageA) : r[1] # r[2]
    /\ SameSize(imageA, result.bilateral)
    /\ SameSize(imageA, result.gauss)
    /\ SameSize(imageA, result.sharpen)
-----------------------------------------------------------------------------
(* Every filter called on two images that differ in one colour channel     *)

\* the value written into the changed channel
ChannelValues == {100}

\* the images with one edge
ChannelImages ==
    {MkImage(w, h, pat, c0, c1) :
        w \in 1..MaxSide, h \in 1..MaxSide, pat \in {"stepx", "stepy"},
        c0 \in FilterPalette, c1 \in FilterPalette}

\* img with channel ch of pixel i set to v
WithChannel(img, i, ch, v) ==
    [img EXCEPT !.pixels[i] = [@ EXCEPT ![ch] = v]]

\* the images that differ from img in channel ch of its first pixel only
ChannelVariants(img, ch) ==
    {WithChannel(img, 1, ch, v) : v \in ChannelValues} \ {img}

ChannelParams ==
    [kernelSize : 1..MaxKernel,
     sigmaSpatial : {[neg |-> FALSE, base |-> 2]},
     sigmaRange : RangeSigmas,
     roundDown : BOOLEAN,
     channel : 1..3]

NoChannelResults ==
    [gauss |-> NoImage, cv |-> NoImage, bilateral |-> NoImage,
     sharpen |-> NoImage, unsharp |-> NoImage]

InitChannels ==
    /\ imageA \in ChannelImages
    /\ params \in ChannelParams
    /\ imageB \in ChannelVariants(imageA, params.channel)
    /\ amount = SharpenAmount
    /\ threshold = SharpenThreshold
    /\ pc = "gauss"
    /\ result = NoChannelResults
    /\ reverse = NoChannelResults

\* applyGaussianBlur of tester.cpp on both images
ChannelsGaussianBlur ==
    /\ pc = "gauss"
    /\ "channel" \in DOMAIN params
    /\ result' = [result EXCEPT !.gauss =
            applyGaussianBlur(imageA, params.kernelSize, params.sigmaSpatial,
                              params.roundDown).image]
    /\ reverse' = [reverse EXCEPT !.gauss =
            applyGaussianBlur(imageB, params.kernelSize, params.sigmaSpatial,
                              params.roundDown).image]
    /\ pc' = "cv"
    /\ UNCHANGED <<imageA, imageB, amount, threshold, params>>

\* applyGaussianBlur of filters.cpp on both images
ChannelsGaussianBlurCv ==
    /\ pc = "cv"
    /\ "channel" \in DOMAIN params
    /\ result' = [result EXCEPT !.cv =
            applyGaussianBlurCv(imageA, params.kernelSize,
                                params.sigmaSpatial).image]
    /\ reverse' = [reverse EXCEPT !.cv =
            applyGaussianBlurCv(imageB, params.kernelSize,
                                params.sigmaSpatial).image]
    /\ pc' = "bilateral"
    /\ UNCHANGED <<imageA, imageB, amount, threshold, params>>

\* applyBilateralFilter on both images
ChannelsBilateralFilter ==
    /\ pc = "bilateral"
    /\ "channel" \in DOMAIN params
    /\ result' = [result EXCEPT !.bilateral =
            applyBilateralFilter(imageA, params.kernelSize, params.sigmaSpatial,
                                 params.sigmaRange, params.roundDown).image]
    /\ reverse' = [reverse EXCEPT !.bilateral =
            applyBilateralFilter(imageB, params.kernelSize, params.sigmaSpatial,
                                 params.sigmaRange, params.roundDown).image]
    /\ pc' = "sharpen"
    /\ UNCHANGED <<imageA, imageB, amount, threshold, params>>

\* applySharpen on both images
ChannelsSharpen ==
    /\ pc = "sharpen"
    /\ "channel" \in DOMAIN params
    /\ result' = [result EXCEPT !.sharpen =
            applySharpen(imageA, DefaultSharpenAmount).image]
    /\ reverse' = [reverse EXCEPT !.sharpen =
            applySharpen(imageB, DefaultSharpenAmount).image]
    /\ pc' = "unsharp"
    /\ UNCHANGED <<imageA, imageB, amount, threshold, params>>

\* applyUnsharpMask on both images, each with its own blurred image
ChannelsUnsharpMask ==
    /\ pc = "unsharp"
    /\ "channel" \in DOMAIN params
    /\ result' = [result EXCEPT !.unsharp =
            AsImage(applyUnsharpMask(AsMat(imageA), AsMat(result.cv),
                                     amount, threshold, 0).mat)]
    /\ reverse' = [reverse EXCEPT !.unsharp =
            AsImage(applyUnsharpMask(AsMat(imageB), AsMat(reverse.cv),
                                     amount, threshold, 0).mat)]
    /\ pc' = "done"
    /\ UNCHANGED <<imageA, imageB, amount, threshold, params>>

NextChannels ==
    \/ ChannelsGaussianBlur
    \/ ChannelsGaussianBlurCv
    \/ ChannelsBilateralFilter
    \/ ChannelsSharpen
    \/ ChannelsUnsharpMask

SpecChannels == InitChannels /\ [][NextChannels]_vars

ChannelsDone == pc = "done" /\ "channel" \in DOMAIN params

\* a and b are equal in every channel but ch
OtherChannelsEqual(a, b, ch) ==
    /\ a.width = b.width
    /\ a.height = b.height
    /\ \A i \in 1..(a.width * a.height) :
           \A c \in (1..3) \ {ch} : a.pixels[i][c] = b.pixels[i][c]

(* C22: for every filter (Gaussian blur, bilateral filter, sharpen, unsharp *)
(* mask), two inputs that differ only in one colour channel produce outputs *)
(* that are equal in the other two channels.                                *)
ChannelsIndependent ==
    ChannelsDone =>
        /\ OtherChannelsEqual(result.gauss, reverse.gauss, params.channel)
        /\ OtherChannelsEqual(result.cv, reverse.cv, params.channel)
        /\ OtherChannelsEqual(result.bilateral, reverse.bilateral, params.channel)
        /\ OtherChannelsEqual(result.sharpen, reverse.sharpen, params.channel)
        /\ OtherChannelsEqual(result.unsharp, reverse.unsharp, params.channel)

\* the same for the filters whose weights do not depend on the samples:
\* both Gaussian blurs, sharpen and unsharp mask.  The weight of a bilateral
\* neighbour is computed from the colour difference over all three channels
\* and so is left out.
ChannelsIndependentFixedWeights ==
    ChannelsDone =>
        /\ OtherChannelsEqual(result.gauss, reverse.gauss, params.channel)
        /\ OtherChannelsEqual(result.cv, reverse.cv, params.channel)
        /\ OtherChannelsEqual(result.sharpen, reverse.sharpen, params.channel)
        /\ OtherChannelsEqual(result.unsharp, reverse.unsharp, params.channel)

\* the outputs of the blurs, of sharpen and of unsharp mask differ in the
\* changed channel and in no other
ChannelChangeConfined ==
    /\ ChannelsDone
    /\ imageA # imageB
    /\ OtherChannelsEqual(imageA, imageB, params.channel)
    /\ result.gauss # reverse.gauss
    /\ result.cv # reverse.cv
    /\ result.sharpen # reverse.sharpen
    /\ result.unsharp # reverse.unsharp
    /\ OtherChannelsEqual(result.gauss, reverse.gauss, params.channel)
    /\ OtherChannelsEqual(result.cv, reverse.cv, params.channel)
    /\ OtherChannelsEqual(result.sharpen, reverse.sharpen, params.channel)
    /\ OtherChannelsEqual(result.unsharp, reverse.unsharp, params.channel)

-----------------------------------------------------------------------------
(* rangeWeight on 8-bit colours: diff * diff in 32-bit int (tester.cpp)    *)

\* INT_MAX of the 32-bit int diff * diff is computed in
IntMax == 2147483647

\* diff * diff is not representable in int
SquareOverflows(diff) == diff # 0 /\ Abs(diff) > IntMax \div Abs(diff)

\* diff * diff reduced modulo 2^32 into the range of int, for 0 <= diff < 2^24,
\* multiplied out over the bytes a2 a1 a0 of diff
WrappedSquare(diff) ==
    LET a0 == diff % 256
        a1 == (diff \div 256) % 256
        a2 == diff \div 65536
        c0 == a0 * a0
        c1 == 2 * a0 * a1
        c2 == a1 * a1 + 2 * a0 * a2
        c3 == 2 * a1 * a2
        low == c0 + (c1 % 256) * 256
        high == (low \div 65536) + (c1 \div 256) + c2 + (c3 % 256) * 256
        low16 == low % 65536
        high16 == high % 65536
    IN IF high16 >= 32768 THEN (high16 - 65536) * 65536 + low16
       ELSE high16 * 65536 + low16

\* what signed overflow does in a build: the product wraps around, or the
\* build traps on it (-ftrapv, -fsanitize=signed-integer-overflow)
OverflowOutcomes == {"wrap", "trap"}

\* rangeWeight(diff, sigmaRange) with diff * diff computed in int: the weight
\* fx in units of 1/RScale; above tells a weight greater than 1, the
\* exponential of a positive number
rangeWeightInt(diff, sigmaRange, outcome) ==
    IF ~SquareOverflows(diff)
    THEN [diff |-> diff, overflow |-> FALSE, trapped |-> FALSE, above |-> FALSE,
          fx |-> rangeWeight(diff, sigmaRange)]
    ELSE IF outcome = "trap"
    THEN [diff |-> diff, overflow |-> TRUE, trapped |-> TRUE, above |-> FALSE,
          fx |-> 0]
    ELSE LET squared == WrappedSquare(diff)
         IN IF squared >= 0
            THEN [diff |-> diff, overflow |-> TRUE, trapped |-> FALSE,
                  above |-> FALSE,
                  fx |-> ExpFx(RScale, sigmaRange.base, squared)]
            ELSE [diff |-> diff, overflow |-> TRUE, trapped |-> FALSE,
                  above |-> sigmaRange.base # 1, fx |-> RScale]

RangePixels ==
    {<<0, 0, 0>>, <<3, 3, 3>>, <<3, 3, 4>>, <<100, 100, 100>>,
     <<255, 0, 0>>, <<255, 255, 255>>}

NoRangeWeight ==
    [diff |-> 0, overflow |-> FALSE, trapped |-> FALSE, above |-> FALSE,
     fx |-> 0]

\* a centre pixel and two of its neighbours
InitRange ==
    /\ imageA = NoImage
    /\ imageB = NoImage
    /\ amount = 0
    /\ threshold = 0
    /\ params \in [center : RangePixels, near : RangePixels, far : RangePixels,
                   sigmaRange : {s \in RangeSigmas : ~s.neg},
                   outcome : OverflowOutcomes]
    /\ pc = "near"
    /\ result = NoRangeWeight
    /\ reverse = NoRangeWeight

\* colorDiff = colorDifference(centerPixel, neighborPixel);
\* rangeW = rangeWeight(colorDiff, sigmaRange)
CallRangeWeight ==
    /\ pc = "near"
    /\ "center" \in DOMAIN params
    /\ result' = rangeWeightInt(colorDifference(params.center, params.near),
                                params.sigmaRange, params.outcome)
    /\ pc' = "far"
    /\ UNCHANGED <<imageA, imageB, amount, threshold, params, reverse>>

\* the same for the other neighbour
CallRangeWeightFar ==
    /\ pc = "far"
    /\ "center" \in DOMAIN params
    /\ reverse' = rangeWeightInt(colorDifference(params.center, params.far),
                                 params.sigmaRange, params.outcome)
    /\ pc' = "done"
    /\ UNCHANGED <<imageA, imageB, amount, threshold, params, result>>

NextRange == CallRangeWeight \/ CallRangeWeightFar

SpecRange == InitRange /\ [][NextRange]_vars

RangeDone == pc = "done" /\ "center" \in DOMAIN params

\* weight w is at most weight v
WeightAtMost(w, v) ==
    IF v.above THEN TRUE
    ELSE ~w.above /\ w.fx <= v.fx

(* C24: for every pair of 8-bit RGB pixels and every sigmaRange > 0 the     *)
(* square diff * diff that rangeWeight computes in 32-bit signed int does   *)
(* not overflow, the range weight is returned and is at most 1, and it      *)
(* never increases when the colour difference grows.                        *)
RangeWeightWellFormed ==
    RangeDone =>
        /\ ~result.overflow /\ ~reverse.overflow
        /\ ~result.trapped /\ ~reverse.trapped
        /\ ~result.above /\ ~reverse.above
        /\ result.fx <= RScale /\ reverse.fx <= RScale
        /\ result.diff <= reverse.diff => WeightAtMost(reverse, result)

\* the same for colour differences whose square is representable in int
RangeWeightWellFormedSmall ==
    (RangeDone /\ ~SquareOverflows(result.diff)
        /\ ~SquareOverflows(reverse.diff)) =>
        /\ ~result.overflow /\ ~reverse.overflow
        /\ ~result.above /\ ~reverse.above
        /\ result.fx <= RScale /\ reverse.fx <= RScale
        /\ result.diff <= reverse.diff => WeightAtMost(reverse, result)

-----------------------------------------------------------------------------
(* The negative return value of computeSSIM                                *)

(* C25: computeSSIM returns a negative value only when input validation     *)
(* fails (empty input, size mismatch, type mismatch); for every pair of     *)
(* buffers that passes validation the returned value is >= 0, so the check  *)
(* ssim < 0 of main.cpp ends a run only on a genuine metric failure.        *)
SsimSentinelUnambiguous ==
    (pc = "done" /\ "kind" \in DOMAIN result /\ "map" \in DOMAIN result) =>
        /\ SsimNegative(result) => ~SsimAccepts(imageA, imageB)
        /\ SsimNegative(reverse) => ~SsimAccepts(imageB, imageA)

\* the half of C25 that holds: a failed validation is answered with a
\* negative value
SsimRejectionNegative ==
    (pc = "done" /\ "kind" \in DOMAIN result /\ "map" \in DOMAIN result
        /\ ~SsimAccepts(imageA, imageB)) =>
        result = SsimSentinel /\ SsimNegative(result)

-----------------------------------------------------------------------------
(* The calls of calculateCompositeScore in main.cpp                        *)

\* step is among the steps passed
Passed(step) == \E i \in 1..Len(result.steps) : result.steps[i] = step

\* step first is passed before every passing of step second
Before(first, second) ==
    \A i \in 1..Len(result.steps) :
        result.steps[i] = second =>
            \E j \in 1..(i - 1) : result.steps[j] = first

(* C26: in every execution of runTestingMode and runPracticalMode each call *)
(* of calculateCompositeScore happens after both of its arguments were      *)
(* checked non-negative, so the scorer never returns its -1 sentinel and a  *)
(* printed composite score is always >= 0.                                  *)
CompositeAfterChecks ==
    ("argc" \in DOMAIN params) =>
        /\ Before("baseline_psnr", "baseline_composite")
        /\ Before("baseline_ssim", "baseline_composite")
        /\ Before("enhanced_psnr", "enhanced_composite")
        /\ Before("enhanced_ssim", "enhanced_composite")
        /\ Passed("baseline_composite") =>
              /\ result.baselineComposite.psnr = result.baselinePSNR
              /\ result.baselineComposite.ssim = result.baselineSSIM
              /\ ~PsnrNegative(result.baselinePSNR)
              /\ ~SsimNegative(result.baselineSSIM)
              /\ ~result.baselineComposite.sentinel
        /\ Passed("enhanced_composite") =>
              /\ result.enhancedComposite.psnr = result.enhancedPSNR
              /\ result.enhancedComposite.ssim = result.enhancedSSIM
              /\ ~PsnrNegative(result.enhancedPSNR)
              /\ ~SsimNegative(result.enhancedSSIM)
              /\ ~result.enhancedComposite.sentinel

\* a test run has computed both composite scores from computed metrics
BothCompositesScored ==
    /\ TestRunExited
    /\ Passed("baseline_composite")
    /\ Passed("enhanced_composite")
    /\ result.baselinePSNR.computed /\ result.baselineSSIM.computed
    /\ result.enhancedPSNR.computed /\ result.enhancedSSIM.computed
    /\ ~result.baselineComposite.sentinel
    /\ ~result.enhancedComposite.sentinel
=============================================================================
